---- MODULE Spec2Model ----
(***************************************************************************)
(* A model of qwlist: the Lazy pipeline and the QList container.           *)
(*                                                                         *)
(* The Python objects live in `heap`, a sequence of records; an object's   *)
(* identity is its index.  A list is re-iterable (iter() makes a fresh     *)
(* list iterator over the live list); a generator, a list iterator, a zip  *)
(* object and the frame of an `inner()` generator function are one-shot    *)
(* iterators.  A frame is created unstarted ("new"): its body, beginning   *)
(* with the iter() call of its for loop, runs on the first next().         *)
(***************************************************************************)
EXTENDS Integers, Sequences, FiniteSets, TLC

VARIABLES heap, last

vars == <<heap, last>>

\* ------------------------------------------------------------------ bounds
MaxLen == 3
MaxVal == 1
MaxOther == 2
MaxN == 3
MaxPulls == 5
MaxFuel == 40
MaxObjs == 6
MaxTake == 7

Elems == 0..MaxVal

RECURSIVE SeqsUpTo(_, _)
SeqsUpTo(S, n) ==
    IF n = 0 THEN {<<>>}
    ELSE LET shorter == SeqsUpTo(S, n - 1)
         IN  shorter \cup {Append(s, x) : s \in {t \in shorter : Len(t) = n - 1}, x \in S}

Inputs == SeqsUpTo(Elems, MaxLen)
Others == SeqsUpTo(Elems, MaxOther)

Max(a, b) == IF a >= b THEN a ELSE b
Min(a, b) == IF a <= b THEN a ELSE b

\* ------------------------------------------------------------- the objects
\* Every object has the same fields; a kind uses the ones it needs.
\*   seq  a list's elements, a generator's remaining script, cycle's `saved`
\*   up   the receiver (`self`) or the wrapped iterable;  oth  the `other`
\*   it   the iterator a running for loop holds over up;  oit  over oth
\*   n    the integer parameter;  i  a counter or position
\*   st   "new" | "loop" | ... | "done";  fn  the callable parameter
\*   l,r  merge's held heads
\*   win  window's deque, batch's and batch_by's group
\* A window is yielded as a reference [ref |-> id] to the list object that
\* holds it; a batch or a group, whose identity plays no part, as the
\* sequence of its elements.
Blank ==
    [kind |-> "none", seq |-> <<>>, up |-> 0, oth |-> 0, it |-> 0, oit |-> 0,
     n |-> 0, i |-> 0, st |-> "new", fn |-> "id", l |-> 0, r |-> 0, win |-> <<>>]

Ref(id) == [ref |-> id]

NewList(s) == [Blank EXCEPT !.kind = "list", !.seq = s]
NewGen(s) == [Blank EXCEPT !.kind = "gen", !.seq = s]
NewNaturals(start) == [Blank EXCEPT !.kind = "naturals", !.i = start]
NewLazy(gen) == [Blank EXCEPT !.kind = "lazy", !.up = gen]
NewFrame(kind, self) == [Blank EXCEPT !.kind = kind, !.up = self]

Alloc(h, obj) == Append(h, obj)
Top(h) == Len(h)

\* lambda x: g(f(x)), for two of the plain mappers.
Simple == {"id", "inc", "dbl"}
Compose(g, f) == g \o " o " \o f
Composed == {Compose(g, f) : g \in Simple, f \in Simple}

\* The callables the model passes as mapper, pred and merger.
RECURSIVE Apply(_, _)
Apply(fn, x) ==
    CASE fn = "id" -> x
      [] fn = "inc" -> x + 1
      [] fn = "dbl" -> 2 * x
      [] fn = "even" -> x % 2 = 0
      [] fn = "pos" -> x > 0
      [] fn = "is2" -> x = 2
      [] fn = "true" -> TRUE
      [] fn = "false" -> FALSE
      [] fn \in Composed ->
            LET p == CHOOSE p \in Simple \X Simple : fn = Compose(p[1], p[2])
            IN  Apply(p[1], Apply(p[2], x))

Apply2(fn, x, y) ==
    CASE fn = "lt" -> x < y
      [] fn = "le" -> x <= y
      [] fn = "gt" -> x > y
      [] fn = "true" -> TRUE
      [] fn = "false" -> FALSE
      [] fn = "add" -> x + y

\* The mappers that return an iterable (for flatmap).
ApplyMany(fn, x) ==
    CASE fn = "dup" -> <<x, x>>
      [] fn = "one" -> <<x>>
      [] fn = "nil" -> <<>>

\* Where an element's runtime type matters (flatten, full_flatten) it is a
\* record of its type name and its value: an int, a str (the sequence of its
\* characters), or a list or tuple of such elements.
PyInt(x) == [t |-> "int", v |-> x]
PyStr(cs) == [t |-> "str", v |-> cs]
PyList(xs) == [t |-> "list", v |-> xs]
PyTuple(xs) == [t |-> "tuple", v |-> xs]

\* isinstance(elem, Iterable)
IsIterable(elem) == elem.t \in {"str", "list", "tuple"}

\* What iterating elem yields: a str yields its one-character strings.
Items(elem) ==
    IF elem.t = "str" THEN [i \in 1..Len(elem.v) |-> PyStr(<<elem.v[i]>>)] ELSE elem.v

\* TypeError(f'could not flatten ...[{type_name}] because {type_name} is not iterable.')
TypeError(elem) == [exc |-> "TypeError", type_name |-> elem.t]

\* ---------------------------------------------------------------- iter()
\* iter(x): a list gives a fresh list iterator over the live list, a Lazy
\* gives iter(self.gen), an iterator gives itself.
RECURSIVE Iter(_, _)

\* A wrong iter(): a generator hands out a copy of itself that starts over.
Iter_copies(h, x) ==
    CASE h[x].kind = "list" ->
            [h |-> Alloc(h, [Blank EXCEPT !.kind = "listiter", !.up = x, !.st = "loop"]),
             it |-> Len(h) + 1]
      [] h[x].kind = "gen" -> [h |-> Alloc(h, NewGen(h[x].seq)), it |-> Len(h) + 1]
      [] h[x].kind = "lazy" -> Iter(h, h[x].up)
      [] OTHER -> [h |-> h, it |-> x]

\* A wrong iter(): a list hands out the iterator it already has, if any.
Iter_shared(h, x) ==
    LET have == {y \in DOMAIN h : h[y].kind = "listiter" /\ h[y].up = x}
    IN  CASE h[x].kind = "list" /\ have # {} -> [h |-> h, it |-> CHOOSE y \in have : TRUE]
          [] h[x].kind = "list" ->
                [h |-> Alloc(h, [Blank EXCEPT !.kind = "listiter", !.up = x, !.st = "loop"]),
                 it |-> Len(h) + 1]
          [] h[x].kind = "lazy" -> Iter(h, h[x].up)
          [] OTHER -> [h |-> h, it |-> x]

Iter(h, x) ==
    CASE h[x].kind = "list" ->
            [h |-> Alloc(h, [Blank EXCEPT !.kind = "listiter", !.up = x, !.st = "loop"]),
             it |-> Len(h) + 1]
      [] h[x].kind = "lazy" -> Iter(h, h[x].up)
      [] OTHER -> [h |-> h, it |-> x]

\* ---------------------------------------------------------------- next()
\* The outcome of next(it): the heap after it, "val" with the element,
\* "stop" for StopIteration, or "hang" when the call does not return.
Val(h, v) == [h |-> h, st |-> "val", v |-> v]
Stop(h) == [h |-> h, st |-> "stop", v |-> 0]
Hang(h) == [h |-> h, st |-> "hang", v |-> 0]
Finish(h, id) == Stop([h EXCEPT ![id].st = "done"])

\* The generator raised: it is finished, and next() raises exc.
Raise(h, id, exc) == [h |-> [h EXCEPT ![id].st = "done"], st |-> "raise", v |-> exc]

\* A frame's first next() enters its for loop: `for elem in self.gen`.
Start(h, id) ==
    IF h[id].st = "new"
    THEN LET r == Iter(h, h[id].up)
         IN  [r.h EXCEPT ![id].it = r.it, ![id].st = "loop"]
    ELSE h

RECURSIVE Pull(_, _, _)

\* A list iterator reads the live list at its index; once exhausted it stays so.
Pull_listiter(h, id, fuel) ==
    LET o == h[id]
    IN  IF o.st = "done" THEN Stop(h)
        ELSE IF o.i < Len(h[o.up].seq)
             THEN Val([h EXCEPT ![id].i = o.i + 1], h[o.up].seq[o.i + 1])
             ELSE Finish(h, id)

\* A wrong generator: one that starts over once it has stopped.
Pull_gen_restarts(h, id, fuel) ==
    LET o == h[id]
    IN  IF o.i < Len(o.seq)
        THEN Val([h EXCEPT ![id].i = o.i + 1], o.seq[o.i + 1])
        ELSE Stop([h EXCEPT ![id].i = 0])

\* A generator that yields the elements of its script, then stops.
Pull_gen(h, id, fuel) ==
    LET o == h[id]
    IN  IF o.i < Len(o.seq)
        THEN Val([h EXCEPT ![id].i = o.i + 1], o.seq[o.i + 1])
        ELSE Finish(h, id)

\* naturals(): yield current; current += 1, forever.
Pull_naturals(h, id, fuel) == Val([h EXCEPT ![id].i = h[id].i + 1], h[id].i)

\* Lazy.map / QList.map: for elem in self.gen: yield mapper(elem)
\* A wrong map: it takes two elements of the source for each one it yields.
Pull_map_lookahead(h, id, fuel) ==
    LET h1 == Start(h, id)
        r == Pull(h1, h1[id].it, fuel - 1)
        r2 == Pull(r.h, h1[id].it, fuel - 1)
    IN  CASE r.st = "val" -> Val(r2.h, Apply(h1[id].fn, r.v))
          [] r.st = "stop" -> Finish(r.h, id)
          [] OTHER -> r

Pull_map(h, id, fuel) ==
    LET h1 == Start(h, id)
        r == Pull(h1, h1[id].it, fuel - 1)
    IN  CASE r.st = "val" -> Val(r.h, Apply(h1[id].fn, r.v))
          [] r.st = "stop" -> Finish(r.h, id)
          [] OTHER -> r

\* Lazy.filter / QList.filter: for elem in self.gen: if pred(elem): yield elem
\* The loop goes on inside one next() for as long as pred fails.
RECURSIVE FilterLoop(_, _, _)
FilterLoop(h, id, fuel) ==
    LET on(r) ==
            CASE r.st = "val" ->
                    IF Apply(h[id].fn, r.v) THEN r ELSE FilterLoop(r.h, id, fuel - 1)
              [] r.st = "stop" -> Finish(r.h, id)
              [] OTHER -> r
    IN  IF fuel <= 0 THEN Hang(h) ELSE on(Pull(h, h[id].it, fuel - 1))

Pull_filter(h, id, fuel) == FilterLoop(Start(h, id), id, fuel)

\* A wrong take: `if i > n` for `if i >= n`.
Pull_take_one_more(h, id, fuel) ==
    LET h1 == Start(h, id)
        r == Pull(h1, h1[id].it, fuel - 1)
    IN  CASE r.st = "val" ->
                IF h1[id].i > h1[id].n
                THEN Finish(r.h, id)
                ELSE Val([r.h EXCEPT ![id].i = h1[id].i + 1], r.v)
          [] r.st = "stop" -> Finish(r.h, id)
          [] OTHER -> r

\* Lazy.take / QList.take:
\*   for i, elem in enumerate(self.gen): if i >= n: return None; yield elem
Pull_take(h, id, fuel) ==
    LET h1 == Start(h, id)
        r == Pull(h1, h1[id].it, fuel - 1)
    IN  CASE r.st = "val" ->
                IF h1[id].i >= h1[id].n
                THEN Finish(r.h, id)
                ELSE Val([r.h EXCEPT ![id].i = h1[id].i + 1], r.v)
          [] r.st = "stop" -> Finish(r.h, id)
          [] OTHER -> r

\* Lazy.skip / QList.skip:
\*   for i, elem in enumerate(self.gen): if i >= n: yield elem
Pull_skip(h, id, fuel) ==
    LET h1 == Start(h, id)
        r == Pull(h1, h1[id].it, fuel - 1)
        counted == [r.h EXCEPT ![id].i = h1[id].i + 1]
    IN  CASE r.st = "val" ->
                IF h1[id].i >= h1[id].n THEN Val(counted, r.v) ELSE Pull(counted, id, fuel - 1)
          [] r.st = "stop" -> Finish(r.h, id)
          [] OTHER -> r

\* A wrong take_while: an element that fails pred is passed over.
Pull_take_while_resumes(h, id, fuel) ==
    LET h1 == Start(h, id)
        r == Pull(h1, h1[id].it, fuel - 1)
    IN  CASE r.st = "val" -> IF Apply(h1[id].fn, r.v) THEN r ELSE Pull(r.h, id, fuel - 1)
          [] r.st = "stop" -> Finish(r.h, id)
          [] OTHER -> r

\* Lazy.take_while: for elem in self.gen: if not pred(elem): return; yield elem
Pull_take_while(h, id, fuel) ==
    LET h1 == Start(h, id)
        r == Pull(h1, h1[id].it, fuel - 1)
    IN  CASE r.st = "val" -> IF Apply(h1[id].fn, r.v) THEN r ELSE Finish(r.h, id)
          [] r.st = "stop" -> Finish(r.h, id)
          [] OTHER -> r

\* Lazy.enumerate: for i, elem in enumerate(self, start=start): yield i, elem
Pull_enumerate(h, id, fuel) ==
    LET h1 == Start(h, id)
        r == Pull(h1, h1[id].it, fuel - 1)
    IN  CASE r.st = "val" ->
                Val([r.h EXCEPT ![id].i = h1[id].i + 1], <<h1[id].n + h1[id].i, r.v>>)
          [] r.st = "stop" -> Finish(r.h, id)
          [] OTHER -> r

\* Lazy.scan: for elem in self.gen: s = operation(s, elem); yield s
Pull_scan(h, id, fuel) ==
    LET h1 == Start(h, id)
        r == Pull(h1, h1[id].it, fuel - 1)
        s == Apply2(h1[id].fn, h1[id].l, r.v)
    IN  CASE r.st = "val" -> Val([r.h EXCEPT ![id].l = s], s)
          [] r.st = "stop" -> Finish(r.h, id)
          [] OTHER -> r

\* Lazy.flatmap: for elem in self.gen: yield from mapper(elem)
\* seq holds what is left of the current mapper(elem).
Pull_flatmap(h, id, fuel) ==
    LET h1 == Start(h, id)
    IN  IF h1[id].seq # <<>>
        THEN Val([h1 EXCEPT ![id].seq = Tail(h1[id].seq)], Head(h1[id].seq))
        ELSE LET r == Pull(h1, h1[id].it, fuel - 1)
             IN  CASE r.st = "val" ->
                         Pull([r.h EXCEPT ![id].seq = ApplyMany(h1[id].fn, r.v)], id, fuel - 1)
                   [] r.st = "stop" -> Finish(r.h, id)
                   [] OTHER -> r

\* Lazy.chain: yield from self.gen; yield from other
Pull_chain(h, id, fuel) ==
    LET h1 == Start(h, id)
    IN  IF h1[id].st = "loop"
        THEN LET r == Pull(h1, h1[id].it, fuel - 1)
             IN  CASE r.st = "val" -> r
                   [] r.st = "stop" ->
                         LET o == Iter(r.h, h1[id].oth)
                         IN  Pull([o.h EXCEPT ![id].oit = o.it, ![id].st = "other"],
                                  id, fuel - 1)
                   [] OTHER -> r
        ELSE LET r == Pull(h1, h1[id].oit, fuel - 1)
             IN  CASE r.st = "val" -> r
                   [] r.st = "stop" -> Finish(r.h, id)
                   [] OTHER -> r

\* A wrong cycle: one that forgets saved.append(elem).
Pull_cycle_forgets(h, id, fuel) ==
    LET h1 == Start(h, id)
        o == h1[id]
    IN  IF o.st = "loop"
        THEN LET r == Pull(h1, o.it, fuel - 1)
             IN  CASE r.st = "val" -> r
                   [] r.st = "stop" -> Finish(r.h, id)
                   [] OTHER -> r
        ELSE Finish(h1, id)

\* Lazy.cycle:
\*   saved = []
\*   for elem in self.gen: saved.append(elem); yield elem
\*   while saved: for elem in saved: yield elem
Pull_cycle(h, id, fuel) ==
    LET h1 == Start(h, id)
        o == h1[id]
        replay(hh, saved, k) ==
            IF saved = <<>> THEN Finish(hh, id)
            ELSE Val([hh EXCEPT ![id].st = "replay", ![id].i = (k + 1) % Len(saved)],
                     saved[k + 1])
    IN  IF o.st = "loop"
        THEN LET r == Pull(h1, o.it, fuel - 1)
             IN  CASE r.st = "val" -> Val([r.h EXCEPT ![id].seq = Append(o.seq, r.v)], r.v)
                   [] r.st = "stop" -> replay(r.h, o.seq, 0)
                   [] OTHER -> r
        ELSE replay(h1, o.seq, o.i)

\* A wrong merge: when it1 is exhausted the held right head is not yielded.
Pull_merge_drops_held(h, id, fuel) ==
    LET o == h[id]
        decide(hh, left, right) ==
            IF Apply2(o.fn, left, right)
            THEN Val([hh EXCEPT ![id].l = left, ![id].r = right, ![id].st = "left"], left)
            ELSE Val([hh EXCEPT ![id].l = left, ![id].r = right, ![id].st = "right"], right)
        rest(hh, it) ==
            LET r == Pull(hh, it, fuel - 1)
            IN  CASE r.st = "val" -> r
                  [] r.st = "stop" -> Finish(r.h, id)
                  [] OTHER -> r
    IN  CASE o.st = "new" -> decide(h, o.l, o.r)
          [] o.st = "left" ->
                LET r == Pull(h, o.it, fuel - 1)
                IN  CASE r.st = "val" -> decide(r.h, r.v, o.r)
                      [] r.st = "stop" -> rest([r.h EXCEPT ![id].st = "rest2"], o.oit)
                      [] OTHER -> r
          [] o.st = "right" ->
                LET r == Pull(h, o.oit, fuel - 1)
                IN  CASE r.st = "val" -> decide(r.h, o.l, r.v)
                      [] r.st = "stop" -> Val([r.h EXCEPT ![id].st = "rest1"], o.l)
                      [] OTHER -> r
          [] o.st = "rest1" -> rest(h, o.it)
          [] o.st = "rest2" -> rest(h, o.oit)

\* The inner() of Lazy.merge, entered with left = elem1 and right = elem2:
\*   while True:
\*     if merger(left, right): yield left; left = next(it1)
\*                             (StopIteration: yield right; yield from it2; return)
\*     else:                   yield right; right = next(it2)
\*                             (StopIteration: yield left; yield from it1; return)
\* st is where the frame is suspended: "left"/"right" after yielding that
\* head, "rest1"/"rest2" inside yield from it1/it2.
Pull_merge(h, id, fuel) ==
    LET o == h[id]
        decide(hh, left, right) ==
            IF Apply2(o.fn, left, right)
            THEN Val([hh EXCEPT ![id].l = left, ![id].r = right, ![id].st = "left"], left)
            ELSE Val([hh EXCEPT ![id].l = left, ![id].r = right, ![id].st = "right"], right)
        rest(hh, it) ==
            LET r == Pull(hh, it, fuel - 1)
            IN  CASE r.st = "val" -> r
                  [] r.st = "stop" -> Finish(r.h, id)
                  [] OTHER -> r
    IN  CASE o.st = "new" -> decide(h, o.l, o.r)
          [] o.st = "left" ->
                LET r == Pull(h, o.it, fuel - 1)
                IN  CASE r.st = "val" -> decide(r.h, r.v, o.r)
                      [] r.st = "stop" -> Val([r.h EXCEPT ![id].st = "rest2"], o.r)
                      [] OTHER -> r
          [] o.st = "right" ->
                LET r == Pull(h, o.oit, fuel - 1)
                IN  CASE r.st = "val" -> decide(r.h, o.l, r.v)
                      [] r.st = "stop" -> Val([r.h EXCEPT ![id].st = "rest1"], o.l)
                      [] OTHER -> r
          [] o.st = "rest1" -> rest(h, o.it)
          [] o.st = "rest2" -> rest(h, o.oit)

\* The zip object of zip(self.gen, other): next() asks the first iterator,
\* then the second, and stops as soon as one of them stops.
Pull_zip(h, id, fuel) ==
    LET a == Pull(h, h[id].it, fuel - 1)
    IN  IF a.st # "val" THEN a
        ELSE LET b == Pull(a.h, h[id].oit, fuel - 1)
             IN  IF b.st # "val" THEN b ELSE Val(b.h, <<a.v, b.v>>)

\* QList.batch: for i in range(0, self.len(), size): yield QList(self[i:i+size])
\* The range is made when the loop is entered (r is its stop); each slice
\* reads the live list.
Pull_qbatch(h, id, fuel) ==
    LET o == h[id]
        stop == IF o.st = "new" THEN Len(h[o.up].seq) ELSE o.r
        s == h[o.up].seq
        slice == IF o.i >= Len(s) THEN <<>> ELSE SubSeq(s, o.i + 1, Min(o.i + o.n, Len(s)))
    IN  IF o.i < stop
        THEN Val([h EXCEPT ![id].st = "loop", ![id].r = stop, ![id].i = o.i + o.n], slice)
        ELSE Finish(h, id)

\* A wrong batch: the last, shorter group is not yielded.
Pull_batch_drops_tail(h, id, fuel) ==
    LET h1 == Start(h, id)
        o == h1[id]
        group(r) == Append(o.win, r.v)
    IN  IF o.st = "tail" THEN Finish(h1, id)
        ELSE LET r == Pull(h1, o.it, fuel - 1)
             IN  CASE r.st = "val" ->
                         IF (o.i + 1) % o.n = 0
                         THEN Val([r.h EXCEPT ![id].i = o.i + 1, ![id].win = <<>>], group(r))
                         ELSE Pull([r.h EXCEPT ![id].i = o.i + 1, ![id].win = group(r)],
                                   id, fuel - 1)
                   [] r.st = "stop" -> Finish(r.h, id)
                   [] OTHER -> r

\* Lazy.batch's inner():
\*   group = QList()
\*   for i, elem in enumerate(self.gen, start=1):
\*       group.append(elem)
\*       if i % size == 0: yield group; group = QList()
\*   if group: yield group
Pull_batch(h, id, fuel) ==
    LET h1 == Start(h, id)
        o == h1[id]
        group(r) == Append(o.win, r.v)
    IN  IF o.st = "tail" THEN Finish(h1, id)
        ELSE LET r == Pull(h1, o.it, fuel - 1)
             IN  CASE r.st = "val" ->
                         IF (o.i + 1) % o.n = 0
                         THEN Val([r.h EXCEPT ![id].i = o.i + 1, ![id].win = <<>>], group(r))
                         ELSE Pull([r.h EXCEPT ![id].i = o.i + 1, ![id].win = group(r)],
                                   id, fuel - 1)
                   [] r.st = "stop" ->
                         IF o.win # <<>>
                         THEN Val([r.h EXCEPT ![id].st = "tail", ![id].win = <<>>], o.win)
                         ELSE Finish(r.h, id)
                   [] OTHER -> r

\* A wrong flatten: an element that is not iterable is yielded as it is.
Pull_flatten_tolerant(h, id, fuel) ==
    LET h1 == Start(h, id)
    IN  IF h1[id].seq # <<>>
        THEN Val([h1 EXCEPT ![id].seq = Tail(h1[id].seq)], Head(h1[id].seq))
        ELSE LET r == Pull(h1, h1[id].it, fuel - 1)
             IN  CASE r.st = "val" ->
                         IF ~IsIterable(r.v) THEN r
                         ELSE Pull([r.h EXCEPT ![id].seq = Items(r.v)], id, fuel - 1)
                   [] r.st = "stop" -> Finish(r.h, id)
                   [] OTHER -> r

\* Lazy.flatten's and QList.flatten's inner():
\*   for elem in self.gen:
\*       if not isinstance(elem, Iterable): raise TypeError(...)
\*       yield from elem
\* seq holds what is left of the current elem.
Pull_flatten(h, id, fuel) ==
    LET h1 == Start(h, id)
    IN  IF h1[id].seq # <<>>
        THEN Val([h1 EXCEPT ![id].seq = Tail(h1[id].seq)], Head(h1[id].seq))
        ELSE LET r == Pull(h1, h1[id].it, fuel - 1)
             IN  CASE r.st = "val" ->
                         IF ~IsIterable(r.v) THEN Raise(r.h, id, TypeError(r.v))
                         ELSE Pull([r.h EXCEPT ![id].seq = Items(r.v)], id, fuel - 1)
                   [] r.st = "stop" -> Finish(r.h, id)
                   [] OTHER -> r

\* A wrong batch_by: one that forgets `key = new_key`.
Pull_batch_by_keeps_key(h, id, fuel) ==
    LET o == h[id]
        begin(a) ==
            LET r == Pull(a.h, a.it, fuel - 1)
            IN  CASE r.st = "val" ->
                        Pull([r.h EXCEPT ![id].it = a.it, ![id].st = "loop",
                                         ![id].win = <<r.v>>, ![id].l = Apply(o.fn, r.v)],
                             id, fuel - 1)
                  [] r.st = "stop" -> Finish([r.h EXCEPT ![id].it = a.it], id)
                  [] OTHER -> r
    IN  CASE o.st = "new" -> begin(Iter(h, o.up))
          [] o.st = "tail" -> Finish(h, id)
          [] OTHER ->
                LET r == Pull(h, o.it, fuel - 1)
                IN  CASE r.st = "val" ->
                            IF Apply(o.fn, r.v) = o.l
                            THEN Pull([r.h EXCEPT ![id].win = Append(o.win, r.v)], id, fuel - 1)
                            ELSE Val([r.h EXCEPT ![id].win = <<r.v>>], o.win)
                      [] r.st = "stop" -> Val([r.h EXCEPT ![id].st = "tail"], o.win)
                      [] OTHER -> r

\* Lazy.batch_by's inner():
\*   it = self.iter(); first = next(it)      (StopIteration: return)
\*   batch = QList([first]); key = grouper(first)
\*   for elem in it:
\*       new_key = grouper(elem)
\*       if new_key == key: batch.append(elem)
\*       else: yield batch; batch = QList([elem]); key = new_key
\*   yield batch
\* win is batch and l is key.
Pull_batch_by(h, id, fuel) ==
    LET o == h[id]
        begin(a) ==
            LET r == Pull(a.h, a.it, fuel - 1)
            IN  CASE r.st = "val" ->
                        Pull([r.h EXCEPT ![id].it = a.it, ![id].st = "loop",
                                         ![id].win = <<r.v>>, ![id].l = Apply(o.fn, r.v)],
                             id, fuel - 1)
                  [] r.st = "stop" -> Finish([r.h EXCEPT ![id].it = a.it], id)
                  [] OTHER -> r
    IN  CASE o.st = "new" -> begin(Iter(h, o.up))
          [] o.st = "tail" -> Finish(h, id)
          [] OTHER ->
                LET r == Pull(h, o.it, fuel - 1)
                IN  CASE r.st = "val" ->
                            IF Apply(o.fn, r.v) = o.l
                            THEN Pull([r.h EXCEPT ![id].win = Append(o.win, r.v)], id, fuel - 1)
                            ELSE Val([r.h EXCEPT ![id].win = <<r.v>>,
                                                 ![id].l = Apply(o.fn, r.v)], o.win)
                      [] r.st = "stop" -> Val([r.h EXCEPT ![id].st = "tail"], o.win)
                      [] OTHER -> r

\* QList.batch_by's and EagerQList.batch_by's inner():
\*   if self.len() == 0: return
\*   batch = QList([self[0]]); key = grouper(self[0])
\*   for elem in self[1:]: <as in Lazy.batch_by>
\*   if batch: yield batch
\* seq is what is left of the slice self[1:].
Pull_qbatch_by(h, id, fuel) ==
    LET o == h[id]
        s == h[o.up].seq
    IN  CASE o.st = "new" /\ s = <<>> -> Finish(h, id)
          [] o.st = "new" ->
                Pull([h EXCEPT ![id].st = "loop", ![id].seq = Tail(s),
                               ![id].win = <<s[1]>>, ![id].l = Apply(o.fn, s[1])],
                     id, fuel - 1)
          [] o.st = "tail" -> Finish(h, id)
          [] o.seq = <<>> ->
                IF o.win # <<>> THEN Val([h EXCEPT ![id].st = "tail"], o.win)
                ELSE Finish(h, id)
          [] OTHER ->
                IF Apply(o.fn, Head(o.seq)) = o.l
                THEN Pull([h EXCEPT ![id].seq = Tail(o.seq),
                                    ![id].win = Append(o.win, Head(o.seq))], id, fuel - 1)
                ELSE Val([h EXCEPT ![id].seq = Tail(o.seq), ![id].win = <<Head(o.seq)>>,
                                   ![id].l = Apply(o.fn, Head(o.seq))], o.win)

\* A wrong full_flatten: the string rule is tried before preserve_type.
Pull_full_flatten_str_first(h, id, fuel) ==
    LET h1 == Start(h, id)
        o == h1[id]
        d == Len(o.win)
        descend(hh, elem) ==
            Pull([hh EXCEPT ![id].win = Append(hh[id].win, Items(elem))], id, fuel - 1)
        visit(hh, elem) ==
            CASE elem.t = "str" ->
                    IF o.l /\ Len(elem.v) # 1 THEN descend(hh, elem) ELSE Val(hh, elem)
              [] o.fn # "None" /\ elem.t = o.fn -> Val(hh, elem)
              [] IsIterable(elem) -> descend(hh, elem)
              [] OTHER -> Val(hh, elem)
    IN  CASE d > 0 /\ o.win[d] = <<>> ->
                Pull([h1 EXCEPT ![id].win = SubSeq(o.win, 1, d - 1)], id, fuel - 1)
          [] d > 0 ->
                visit([h1 EXCEPT ![id].win[d] = Tail(o.win[d])], Head(o.win[d]))
          [] OTHER ->
                LET r == Pull(h1, o.it, fuel - 1)
                IN  CASE r.st = "val" -> visit(r.h, r.v)
                      [] r.st = "stop" -> Finish(r.h, id)
                      [] OTHER -> r

\* The inner() of Lazy.full_flatten, QList.full_flatten and
\* EagerQList.full_flatten:
\*   for elem in self.gen:
\*       if preserve_type is not None and isinstance(elem, preserve_type): yield elem
\*       elif isinstance(elem, str):
\*           if break_str:
\*               if len(elem) == 1: yield elem
\*               else: yield from Lazy(elem).full_flatten(break_str, preserve_type)
\*           else: yield elem
\*       elif isinstance(elem, Iterable):
\*           yield from Lazy(elem).full_flatten(break_str, preserve_type)
\*       else: yield elem
\* fn is preserve_type and l is break_str.  win is the stack of the nested
\* generators that `yield from` is delegating to, each one the elements its
\* own `for elem in self.gen` has still to visit, the innermost last.
Pull_full_flatten(h, id, fuel) ==
    LET h1 == Start(h, id)
        o == h1[id]
        d == Len(o.win)
        descend(hh, elem) ==
            Pull([hh EXCEPT ![id].win = Append(hh[id].win, Items(elem))], id, fuel - 1)
        visit(hh, elem) ==
            CASE o.fn # "None" /\ elem.t = o.fn -> Val(hh, elem)
              [] elem.t = "str" ->
                    IF o.l /\ Len(elem.v) # 1 THEN descend(hh, elem) ELSE Val(hh, elem)
              [] IsIterable(elem) -> descend(hh, elem)
              [] OTHER -> Val(hh, elem)
    IN  CASE d > 0 /\ o.win[d] = <<>> ->
                Pull([h1 EXCEPT ![id].win = SubSeq(o.win, 1, d - 1)], id, fuel - 1)
          [] d > 0 ->
                visit([h1 EXCEPT ![id].win[d] = Tail(o.win[d])], Head(o.win[d]))
          [] OTHER ->
                LET r == Pull(h1, o.it, fuel - 1)
                IN  CASE r.st = "val" -> visit(r.h, r.v)
                      [] r.st = "stop" -> Finish(r.h, id)
                      [] OTHER -> r

\* The inner() of EagerQList.product and EagerQList.product_with:
\*   for t in self:
\*       for k in other:
\*           yield t, k                (product_with: yield operation(t, k))
\* it walks self, oit is the iterator the running `for k in other` got from
\* iter(other), l is t, and fn is the operation ("None" for product).
Pull_product(h, id, fuel) ==
    LET o == h[id]
        row(r, a) ==
            CASE r.st = "val" ->
                    Pull([a.h EXCEPT ![id].l = r.v, ![id].oit = a.it, ![id].st = "inner"],
                         id, fuel - 1)
              [] r.st = "stop" -> Finish(r.h, id)
              [] OTHER -> r
        outer(r) == IF r.st = "val" THEN row(r, Iter(r.h, o.oth)) ELSE row(r, [h |-> r.h, it |-> 0])
        inner(r) ==
            CASE r.st = "val" ->
                    Val(r.h, IF o.fn = "None" THEN <<o.l, r.v>> ELSE Apply2(o.fn, o.l, r.v))
              [] r.st = "stop" -> Pull([r.h EXCEPT ![id].st = "outer"], id, fuel - 1)
              [] OTHER -> r
    IN  CASE o.st = "new" -> Pull(Start(h, id), id, fuel - 1)
          [] o.st = "inner" -> inner(Pull(h, o.oit, fuel - 1))
          [] OTHER -> outer(Pull(h, o.it, fuel - 1))

\* QList(window): a new list object with the deque's elements.
YieldNew(h, elems) == Val(Alloc(h, NewList(elems)), Ref(Len(h) + 1))

\* The first lines of Lazy.window's inner(n):
\*   for _ in range(n): window.append(next(it))     (StopIteration: return)
RECURSIVE Fill(_, _, _, _, _)
Fill(h, it, n, window, fuel) ==
    LET on(r) ==
            IF r.st = "val" THEN Fill(r.h, it, n, Append(window, r.v), fuel - 1)
            ELSE [h |-> r.h, st |-> r.st, win |-> window]
    IN  IF Len(window) >= n THEN [h |-> h, st |-> "val", win |-> window]
        ELSE IF fuel <= 0 THEN [h |-> h, st |-> "hang", win |-> window]
        ELSE on(Pull(h, it, fuel - 1))

\* A wrong window: a deque without maxlen, which never drops its oldest.
Pull_window_unbounded(h, id, fuel) ==
    LET o == h[id]
        first(a) ==
            LET f == Fill(a.h, a.it, o.n, <<>>, fuel)
            IN  CASE f.st = "val" ->
                        YieldNew([f.h EXCEPT ![id].it = a.it, ![id].st = "loop",
                                             ![id].win = f.win], f.win)
                  [] f.st = "stop" -> Finish([f.h EXCEPT ![id].it = a.it], id)
                  [] OTHER -> Hang(f.h)
        slide(r) == Append(o.win, r.v)
    IN  IF o.st = "new" THEN first(Iter(h, o.up))
        ELSE LET r == Pull(h, o.it, fuel - 1)
             IN  CASE r.st = "val" -> YieldNew([r.h EXCEPT ![id].win = slide(r)], slide(r))
                   [] r.st = "stop" -> Finish(r.h, id)
                   [] OTHER -> r

\* Lazy.window's inner(n):
\*   window = deque(maxlen=n); it = self.iter()
\*   <fill>; yield QList(window)
\*   for elem in it: window.append(elem); yield QList(window)
Pull_window(h, id, fuel) ==
    LET o == h[id]
        first(a) ==
            LET f == Fill(a.h, a.it, o.n, <<>>, fuel)
            IN  CASE f.st = "val" ->
                        YieldNew([f.h EXCEPT ![id].it = a.it, ![id].st = "loop",
                                             ![id].win = f.win], f.win)
                  [] f.st = "stop" -> Finish([f.h EXCEPT ![id].it = a.it], id)
                  [] OTHER -> Hang(f.h)
        slide(r) == Append(Tail(o.win), r.v)
    IN  IF o.st = "new" THEN first(Iter(h, o.up))
        ELSE LET r == Pull(h, o.it, fuel - 1)
             IN  CASE r.st = "val" -> YieldNew([r.h EXCEPT ![id].win = slide(r)], slide(r))
                   [] r.st = "stop" -> Finish(r.h, id)
                   [] OTHER -> r

\* self[a:] of a list.
SliceFrom(s, a) == IF a >= Len(s) THEN <<>> ELSE SubSeq(s, a + 1, Len(s))

\* self[:b] of a list.
SliceTo(s, b) == IF b >= Len(s) THEN s ELSE SubSeq(s, 1, b)

\* QList.window's and EagerQList.window's inner(n):
\*   if self.len() < n: return
\*   if self.len() == n: yield self; return
\*   window = deque(maxlen=n)
\*   for elem in self[:n]: window.append(elem)
\*   yield QList(window)
\*   for elem in self[n:]: window.append(elem); yield QList(window)
\* seq is what is left of the slice self[n:], taken when the loop is entered.
Pull_qwindow(h, id, fuel) ==
    LET o == h[id]
        s == h[o.up].seq
        loop(rest) ==
            IF rest = <<>> THEN Finish(h, id)
            ELSE YieldNew([h EXCEPT ![id].st = "loop", ![id].seq = Tail(rest),
                                    ![id].win = Append(Tail(o.win), Head(rest))],
                          Append(Tail(o.win), Head(rest)))
    IN  CASE o.st = "new" /\ Len(s) < o.n -> Finish(h, id)
          [] o.st = "new" /\ Len(s) = o.n -> Val([h EXCEPT ![id].st = "self"], Ref(o.up))
          [] o.st = "new" ->
                YieldNew([h EXCEPT ![id].st = "first", ![id].win = SliceTo(s, o.n)],
                         SliceTo(s, o.n))
          [] o.st = "self" -> Finish(h, id)
          [] o.st = "first" -> loop(SliceFrom(s, o.n))
          [] OTHER -> loop(o.seq)

\* An exception that leaves a generator frame finishes that frame.
Pull(h, id, fuel) ==
    LET unwind(r) ==
            IF r.st = "raise" /\ h[id].kind # "zip"
            THEN [r EXCEPT !.h = [r.h EXCEPT ![id].st = "done"]]
            ELSE r
    IN  IF fuel <= 0 THEN Hang(h)
        ELSE IF h[id].st = "done" THEN Stop(h)
        ELSE unwind(
         CASE h[id].kind = "listiter" -> Pull_listiter(h, id, fuel)
           [] h[id].kind = "gen" -> Pull_gen(h, id, fuel)
           [] h[id].kind = "naturals" -> Pull_naturals(h, id, fuel)
           [] h[id].kind = "map" -> Pull_map(h, id, fuel)
           [] h[id].kind = "filter" -> Pull_filter(h, id, fuel)
           [] h[id].kind = "take" -> Pull_take(h, id, fuel)
           [] h[id].kind = "zip" -> Pull_zip(h, id, fuel)
           [] h[id].kind = "skip" -> Pull_skip(h, id, fuel)
           [] h[id].kind = "take_while" -> Pull_take_while(h, id, fuel)
           [] h[id].kind = "enumerate" -> Pull_enumerate(h, id, fuel)
           [] h[id].kind = "scan" -> Pull_scan(h, id, fuel)
           [] h[id].kind = "flatmap" -> Pull_flatmap(h, id, fuel)
           [] h[id].kind = "chain" -> Pull_chain(h, id, fuel)
           [] h[id].kind = "cycle" -> Pull_cycle(h, id, fuel)
           [] h[id].kind = "merge" -> Pull_merge(h, id, fuel)
           [] h[id].kind = "qbatch" -> Pull_qbatch(h, id, fuel)
           [] h[id].kind = "window" -> Pull_window(h, id, fuel)
           [] h[id].kind = "batch" -> Pull_batch(h, id, fuel)
           [] h[id].kind = "batch_by" -> Pull_batch_by(h, id, fuel)
           [] h[id].kind = "full_flatten" -> Pull_full_flatten(h, id, fuel)
           [] h[id].kind = "qbatch_by" -> Pull_qbatch_by(h, id, fuel)
           [] h[id].kind = "flatten" -> Pull_flatten(h, id, fuel)
           [] h[id].kind = "qwindow" -> Pull_qwindow(h, id, fuel)
           [] h[id].kind = "product" -> Pull_product(h, id, fuel))

\* Run an iterator to its end, as a for loop or a comprehension does:
\* the elements it yields and how the loop ended ("stop", "hang", or
\* "raise" with the exception in v).
RECURSIVE Drain(_, _, _, _)
Drain(h, it, fuel, acc) ==
    LET on(r) ==
            IF r.st = "val" THEN Drain(r.h, it, fuel - 1, Append(acc, r.v))
            ELSE [h |-> r.h, out |-> acc, st |-> r.st, v |-> r.v]
    IN  IF fuel <= 0 THEN [h |-> h, out |-> acc, st |-> "hang", v |-> 0]
        ELSE on(Pull(h, it, fuel))

\* ------------------------------------------------------- what a call did
\* `last` records the latest call: the operation, its receiver and
\* parameters, how it ended ("ok", "hang" or "raise"), what it returned (none: the
\* None sentinel; v: a value; out: the elements collected; lz: the Lazy
\* returned), the heap before the call, the Lazy objects on which a terminal
\* operation has completed (ran) and whether the receiver was one of them
\* when this call began (again).
NoCall ==
    [op |-> "init", self |-> 0, n |-> 0, fn |-> "id", st |-> "ok", none |-> FALSE,
     v |-> 0, out |-> <<>>, lz |-> 0, pre |-> <<>>, ran |-> {}, again |-> FALSE]

Call(op, self, h) ==
    [NoCall EXCEPT !.op = op, !.self = self, !.pre = h,
                   !.ran = last.ran, !.again = (self \in last.ran)]

\* A chainable operator returned the Lazy on top of heap h.
Made(op, self, h) == [Call(op, self, heap) EXCEPT !.lz = Top(h)]

Running == last.st = "ok"

IsLazy(x) == x \in DOMAIN heap /\ heap[x].kind = "lazy"
IsQList(x) == x \in DOMAIN heap /\ heap[x].kind = "list"
IsSource(h, x) == h[x].kind \in {"gen", "naturals", "listiter"}

Lazies(h) == {x \in DOMAIN h : h[x].kind = "lazy"}

\* A Lazy whose gen is a re-iterable collection, not a one-shot iterator.
OverCollection(h, l) == h[h[l].up].kind = "list"

\* How many elements iterator or generator x has handed out.
Pulled(h, x) == h[x].i

\* ---------------------------------------------------- chainable operators
\* Each allocates the frame of its inner() and the Lazy that wraps it.
Wrap(h, frame) == Alloc(Alloc(h, frame), NewLazy(Len(h) + 1))

Lazy_map(h, self, mapper) == Wrap(h, [NewFrame("map", self) EXCEPT !.fn = mapper])
QList_map(h, self, mapper) == Wrap(h, [NewFrame("map", self) EXCEPT !.fn = mapper])
Lazy_filter(h, self, pred) == Wrap(h, [NewFrame("filter", self) EXCEPT !.fn = pred])
QList_filter(h, self, pred) == Wrap(h, [NewFrame("filter", self) EXCEPT !.fn = pred])
Lazy_take(h, self, n) == Wrap(h, [NewFrame("take", self) EXCEPT !.n = n])
QList_take(h, self, n) == Wrap(h, [NewFrame("take", self) EXCEPT !.n = n])

Lazy_skip(h, self, n) == Wrap(h, [NewFrame("skip", self) EXCEPT !.n = n])
QList_skip(h, self, n) == Wrap(h, [NewFrame("skip", self) EXCEPT !.n = n])
Lazy_take_while(h, self, pred) == Wrap(h, [NewFrame("take_while", self) EXCEPT !.fn = pred])
QList_take_while(h, self, pred) == Wrap(h, [NewFrame("take_while", self) EXCEPT !.fn = pred])
Lazy_enumerate(h, self, start) == Wrap(h, [NewFrame("enumerate", self) EXCEPT !.n = start])
Lazy_flatmap(h, self, mapper) == Wrap(h, [NewFrame("flatmap", self) EXCEPT !.fn = mapper])
Lazy_cycle(h, self) == Wrap(h, NewFrame("cycle", self))
QList_cycle(h, self) == Wrap(h, NewFrame("cycle", self))
Lazy_flatten(h, self) == Wrap(h, NewFrame("flatten", self))
QList_flatten(h, self) == Wrap(h, NewFrame("flatten", self))
Lazy_batch_by(h, self, grouper) == Wrap(h, [NewFrame("batch_by", self) EXCEPT !.fn = grouper])
QList_batch_by(h, self, grouper) == Wrap(h, [NewFrame("qbatch_by", self) EXCEPT !.fn = grouper])
Lazy_full_flatten(h, self, break_str, preserve_type) ==
    Wrap(h, [NewFrame("full_flatten", self) EXCEPT !.l = break_str, !.fn = preserve_type])
QList_full_flatten(h, self, break_str, preserve_type) ==
    Wrap(h, [NewFrame("full_flatten", self) EXCEPT !.l = break_str, !.fn = preserve_type])

\* Lazy.scan: inner(state) binds s to the initial state.
Lazy_scan(h, self, operation, state) ==
    Wrap(h, [NewFrame("scan", self) EXCEPT !.fn = operation, !.l = state])

Lazy_chain(h, self, other) == Wrap(h, [NewFrame("chain", self) EXCEPT !.oth = other])

\* Lazy.batch and Lazy.window assert their size before anything else.
Lazy_batch(h, self, size) == Wrap(h, [NewFrame("batch", self) EXCEPT !.n = size])
Lazy_window(h, self, window_size) ==
    Wrap(h, [NewFrame("window", self) EXCEPT !.n = window_size])
QList_window(h, self, window_size) ==
    Wrap(h, [NewFrame("qwindow", self) EXCEPT !.n = window_size])
QList_batch(h, self, size) == Wrap(h, [NewFrame("qbatch", self) EXCEPT !.n = size])

\* Lazy.merge / QList.merge: before inner() is even created,
\*   it1 = iter(self); it2 = iter(other)
\*   elem1 = next(it1)   (StopIteration: return Lazy(it2))
\*   elem2 = next(it2)   (StopIteration: return Lazy([elem1]).chain(it1))
MergeHeads(h, self, other, merger) ==
    LET empty1(e1, it2) == [h |-> Alloc(e1.h, NewLazy(it2)), st |-> "ok"]
        empty2(e1, e2, it1) ==
            [h |-> Lazy_chain(Alloc(Alloc(e2.h, NewList(<<e1.v>>)), NewLazy(Len(e2.h) + 1)),
                              Len(e2.h) + 2, it1),
             st |-> "ok"]
        both(e1, e2, it1, it2) ==
            [h |-> Wrap(e2.h, [NewFrame("merge", self) EXCEPT
                                  !.oth = other, !.it = it1, !.oit = it2,
                                  !.l = e1.v, !.r = e2.v, !.fn = merger]),
             st |-> "ok"]
        second(e1, e2, it1, it2) ==
            CASE e2.st = "hang" -> [h |-> e2.h, st |-> "hang"]
              [] e2.st = "stop" -> empty2(e1, e2, it1)
              [] OTHER -> both(e1, e2, it1, it2)
        first(e1, it1, it2) ==
            CASE e1.st = "hang" -> [h |-> e1.h, st |-> "hang"]
              [] e1.st = "stop" -> empty1(e1, it2)
              [] OTHER -> second(e1, Pull(e1.h, it2, MaxFuel), it1, it2)
        iters(a, b) == first(Pull(b.h, a.it, MaxFuel), a.it, b.it)
        self_iter(a) == iters(a, Iter(a.h, other))
    IN  self_iter(Iter(h, self))

Lazy_merge(h, self, other, merger) == MergeHeads(h, self, other, merger)
QList_merge(h, self, other, merger) == MergeHeads(h, self, other, merger)

\* Lazy.zip: Lazy(zip(self.gen, other)); zip() calls iter() on both at once.
Lazy_zip(h, self, other) ==
    LET a == Iter(h, h[self].up)
        b == Iter(a.h, other)
    IN  Wrap(b.h, [NewFrame("zip", self) EXCEPT
                      !.oth = other, !.it = a.it, !.oit = b.it, !.st = "loop"])

\* --------------------------------------------------------------- terminals
\* A for loop or comprehension over self.gen: iter(self.gen), then next()
\* until StopIteration.
ForAll(h, self) ==
    LET r == Iter(h, h[self].up)
    IN  Drain(r.h, r.it, MaxFuel, <<>>)

\* Lazy.collect: QList(x for x in self.gen)
Lazy_collect(h, self) == ForAll(h, self)

\* Lazy.qlist: QList(elem for elem in self.gen)
Lazy_qlist(h, self) == ForAll(h, self)

\* Lazy.list: [elem for elem in self.gen]
Lazy_list(h, self) == ForAll(h, self)

RECURSIVE FoldLeft(_, _, _)
FoldLeft(operation, acc, s) ==
    IF s = <<>> THEN acc ELSE FoldLeft(operation, Apply2(operation, acc, Head(s)), Tail(s))

\* Lazy.fold: acc = init; for elem in self.gen: acc = operation(acc, elem)
Lazy_fold(h, self, operation, init) ==
    LET on(r) == [h |-> r.h, st |-> r.st, out |-> r.out, v |-> FoldLeft(operation, init, r.out)]
    IN  on(ForAll(h, self))

\* Lazy.foreach: for elem in self.gen: action(elem); out is what action saw.
Lazy_foreach(h, self) == ForAll(h, self)

\* bool(mapper(elem)); mapper None is the identity, and an int is truthy
\* when it is not 0.
Truthy(mapper, elem) ==
    CASE mapper = "None" -> elem # 0
      [] mapper \in {"id", "inc", "dbl"} -> Apply(mapper, elem) # 0
      [] OTHER -> Apply(mapper, elem)

\* for elem in it: if not mapper(elem): return False
\* return True
\* st is how the last next() ended, v the value returned.
RECURSIVE AllLoop(_, _, _, _)
AllLoop(h, it, mapper, fuel) ==
    LET on(r) ==
            CASE r.st = "val" ->
                    IF ~Truthy(mapper, r.v) THEN [h |-> r.h, out |-> <<>>, st |-> "val", v |-> FALSE]
                    ELSE AllLoop(r.h, it, mapper, fuel - 1)
              [] r.st = "stop" -> [h |-> r.h, out |-> <<>>, st |-> "stop", v |-> TRUE]
              [] OTHER -> [h |-> r.h, out |-> <<>>, st |-> r.st, v |-> r.v]
    IN  IF fuel <= 0 THEN [h |-> h, out |-> <<>>, st |-> "hang", v |-> 0]
        ELSE on(Pull(h, it, fuel))

\* for elem in it: if mapper(elem): return True
\* return False
RECURSIVE AnyLoop(_, _, _, _)
AnyLoop(h, it, mapper, fuel) ==
    LET on(r) ==
            CASE r.st = "val" ->
                    IF Truthy(mapper, r.v) THEN [h |-> r.h, out |-> <<>>, st |-> "val", v |-> TRUE]
                    ELSE AnyLoop(r.h, it, mapper, fuel - 1)
              [] r.st = "stop" -> [h |-> r.h, out |-> <<>>, st |-> "stop", v |-> FALSE]
              [] OTHER -> [h |-> r.h, out |-> <<>>, st |-> r.st, v |-> r.v]
    IN  IF fuel <= 0 THEN [h |-> h, out |-> <<>>, st |-> "hang", v |-> 0]
        ELSE on(Pull(h, it, fuel))

\* A wrong all: one that goes through the entire generator before it answers.
Lazy_all_drains(h, self, mapper) ==
    LET on(r) == [h |-> r.h, out |-> <<>>, st |-> r.st,
                  v |-> IF r.st = "stop"
                        THEN \A j \in 1..Len(r.out) : Truthy(mapper, r.out[j])
                        ELSE r.v]
    IN  on(ForAll(h, self))

\* Lazy.all and Lazy.any: for elem in self.gen
Lazy_all(h, self, mapper) ==
    LET on(a) == AllLoop(a.h, a.it, mapper, MaxFuel)
    IN  on(Iter(h, h[self].up))

Lazy_any(h, self, mapper) ==
    LET on(a) == AnyLoop(a.h, a.it, mapper, MaxFuel)
    IN  on(Iter(h, h[self].up))

\* QList.all and QList.any: for elem in self
QList_all(h, self, mapper) ==
    LET on(a) == AllLoop(a.h, a.it, mapper, MaxFuel)
    IN  on(Iter(h, self))

QList_any(h, self, mapper) ==
    LET on(a) == AnyLoop(a.h, a.it, mapper, MaxFuel)
    IN  on(Iter(h, self))

\* EagerQList.all and EagerQList.any: for elem in self
EagerQList_all(h, self, mapper) ==
    LET on(a) == AllLoop(a.h, a.it, mapper, MaxFuel)
    IN  on(Iter(h, self))

EagerQList_any(h, self, mapper) ==
    LET on(a) == AnyLoop(a.h, a.it, mapper, MaxFuel)
    IN  on(Iter(h, self))

\* key(elem); key None is the identity.
Key(key, elem) ==
    CASE key = "None" -> elem
      [] key = "zero" -> 0
      [] key = "neg" -> 0 - elem
      [] key = "parity" -> elem % 2

RECURSIVE MinLoop(_, _, _, _, _)

\* A wrong loop: a later element that ties on the key replaces best.
MinLoop_last_wins(h, it, key, best, fuel) ==
    LET on(r) ==
            CASE r.st = "val" ->
                    IF Key(key, r.v) <= Key(key, best)
                    THEN MinLoop(r.h, it, key, r.v, fuel - 1)
                    ELSE MinLoop(r.h, it, key, best, fuel - 1)
              [] r.st = "stop" -> [h |-> r.h, out |-> <<>>, st |-> "stop", v |-> best, none |-> FALSE]
              [] OTHER -> [h |-> r.h, out |-> <<>>, st |-> r.st, v |-> r.v, none |-> FALSE]
    IN  IF fuel <= 0 THEN [h |-> h, out |-> <<>>, st |-> "hang", v |-> 0, none |-> FALSE]
        ELSE on(Pull(h, it, fuel))

\* for elem in it: if key(elem) < key(best): best = elem
\* return best
MinLoop(h, it, key, best, fuel) ==
    LET on(r) ==
            CASE r.st = "val" ->
                    IF Key(key, r.v) < Key(key, best)
                    THEN MinLoop(r.h, it, key, r.v, fuel - 1)
                    ELSE MinLoop(r.h, it, key, best, fuel - 1)
              [] r.st = "stop" -> [h |-> r.h, out |-> <<>>, st |-> "stop", v |-> best, none |-> FALSE]
              [] OTHER -> [h |-> r.h, out |-> <<>>, st |-> r.st, v |-> r.v, none |-> FALSE]
    IN  IF fuel <= 0 THEN [h |-> h, out |-> <<>>, st |-> "hang", v |-> 0, none |-> FALSE]
        ELSE on(Pull(h, it, fuel))

\* for elem in it: if key(best) < key(elem): best = elem
\* return best
RECURSIVE MaxLoop(_, _, _, _, _)
MaxLoop(h, it, key, best, fuel) ==
    LET on(r) ==
            CASE r.st = "val" ->
                    IF Key(key, best) < Key(key, r.v)
                    THEN MaxLoop(r.h, it, key, r.v, fuel - 1)
                    ELSE MaxLoop(r.h, it, key, best, fuel - 1)
              [] r.st = "stop" -> [h |-> r.h, out |-> <<>>, st |-> "stop", v |-> best, none |-> FALSE]
              [] OTHER -> [h |-> r.h, out |-> <<>>, st |-> r.st, v |-> r.v, none |-> FALSE]
    IN  IF fuel <= 0 THEN [h |-> h, out |-> <<>>, st |-> "hang", v |-> 0, none |-> FALSE]
        ELSE on(Pull(h, it, fuel))

\* Lazy.min and Lazy.max: it = self.iter(); best = next(it), or return None
\* on StopIteration; then the loop.
Lazy_min(h, self, key) ==
    LET first(r, it) ==
            CASE r.st = "val" -> MinLoop(r.h, it, key, r.v, MaxFuel)
              [] r.st = "stop" -> [h |-> r.h, out |-> <<>>, st |-> "stop", v |-> 0, none |-> TRUE]
              [] OTHER -> [h |-> r.h, out |-> <<>>, st |-> r.st, v |-> r.v, none |-> FALSE]
        on(a) == first(Pull(a.h, a.it, MaxFuel), a.it)
    IN  on(Iter(h, self))

Lazy_max(h, self, key) ==
    LET first(r, it) ==
            CASE r.st = "val" -> MaxLoop(r.h, it, key, r.v, MaxFuel)
              [] r.st = "stop" -> [h |-> r.h, out |-> <<>>, st |-> "stop", v |-> 0, none |-> TRUE]
              [] OTHER -> [h |-> r.h, out |-> <<>>, st |-> r.st, v |-> r.v, none |-> FALSE]
        on(a) == first(Pull(a.h, a.it, MaxFuel), a.it)
    IN  on(Iter(h, self))

\* The loops of QList.min/max and EagerQList.min/max over the slice self[1:].
RECURSIVE ScanMin(_, _, _)
ScanMin(key, best, s) ==
    IF s = <<>> THEN best
    ELSE IF Key(key, Head(s)) < Key(key, best) THEN ScanMin(key, Head(s), Tail(s))
    ELSE ScanMin(key, best, Tail(s))

RECURSIVE ScanMax(_, _, _)
ScanMax(key, best, s) ==
    IF s = <<>> THEN best
    ELSE IF Key(key, best) < Key(key, Head(s)) THEN ScanMax(key, Head(s), Tail(s))
    ELSE ScanMax(key, best, Tail(s))

\* QList.min and QList.max: if self.len() == 0: return None; best = self[0];
\* for elem in self[1:]: ...
QList_min(h, self, key) ==
    IF h[self].seq = <<>>
    THEN [h |-> h, out |-> <<>>, st |-> "stop", v |-> 0, none |-> TRUE]
    ELSE [h |-> h, out |-> <<>>, st |-> "stop", none |-> FALSE,
          v |-> ScanMin(key, h[self].seq[1], Tail(h[self].seq))]

QList_max(h, self, key) ==
    IF h[self].seq = <<>>
    THEN [h |-> h, out |-> <<>>, st |-> "stop", v |-> 0, none |-> TRUE]
    ELSE [h |-> h, out |-> <<>>, st |-> "stop", none |-> FALSE,
          v |-> ScanMax(key, h[self].seq[1], Tail(h[self].seq))]

\* EagerQList.min and EagerQList.max: the same code.
EagerQList_min(h, self, key) ==
    IF h[self].seq = <<>>
    THEN [h |-> h, out |-> <<>>, st |-> "stop", v |-> 0, none |-> TRUE]
    ELSE [h |-> h, out |-> <<>>, st |-> "stop", none |-> FALSE,
          v |-> ScanMin(key, h[self].seq[1], Tail(h[self].seq))]

EagerQList_max(h, self, key) ==
    IF h[self].seq = <<>>
    THEN [h |-> h, out |-> <<>>, st |-> "stop", v |-> 0, none |-> TRUE]
    ELSE [h |-> h, out |-> <<>>, st |-> "stop", none |-> FALSE,
          v |-> ScanMax(key, h[self].seq[1], Tail(h[self].seq))]

\* for elem in it: acc = acc + elem
\* return acc
RECURSIVE SumLoop(_, _, _, _)
SumLoop(h, it, acc, fuel) ==
    LET on(r) ==
            CASE r.st = "val" -> SumLoop(r.h, it, acc + r.v, fuel - 1)
              [] r.st = "stop" -> [h |-> r.h, out |-> <<>>, st |-> "stop", v |-> acc, none |-> FALSE]
              [] OTHER -> [h |-> r.h, out |-> <<>>, st |-> r.st, v |-> r.v, none |-> FALSE]
    IN  IF fuel <= 0 THEN [h |-> h, out |-> <<>>, st |-> "hang", v |-> 0, none |-> FALSE]
        ELSE on(Pull(h, it, fuel))

\* A wrong sum: the accumulator starts at 0 instead of None.
Lazy_sum_from_zero(h, self) ==
    LET first(r, it) ==
            CASE r.st = "val" -> SumLoop(r.h, it, r.v, MaxFuel)
              [] r.st = "stop" -> [h |-> r.h, out |-> <<>>, st |-> "stop", v |-> 0, none |-> FALSE]
              [] OTHER -> [h |-> r.h, out |-> <<>>, st |-> r.st, v |-> r.v, none |-> FALSE]
        on(a) == first(Pull(a.h, a.it, MaxFuel), a.it)
    IN  on(Iter(h, self))

\* A wrong sum: an empty receiver is an error.
Lazy_sum_raises(h, self) ==
    LET first(r, it) ==
            CASE r.st = "val" -> SumLoop(r.h, it, r.v, MaxFuel)
              [] r.st = "stop" -> [h |-> r.h, out |-> <<>>, st |-> "raise", v |-> [exc |-> "ValueError"], none |-> FALSE]
              [] OTHER -> [h |-> r.h, out |-> <<>>, st |-> r.st, v |-> r.v, none |-> FALSE]
        on(a) == first(Pull(a.h, a.it, MaxFuel), a.it)
    IN  on(Iter(h, self))

\* Lazy.sum: it = self.iter(); acc = None; acc = next(it), or return acc on
\* StopIteration; then the loop.
Lazy_sum(h, self) ==
    LET first(r, it) ==
            CASE r.st = "val" -> SumLoop(r.h, it, r.v, MaxFuel)
              [] r.st = "stop" -> [h |-> r.h, out |-> <<>>, st |-> "stop", v |-> 0, none |-> TRUE]
              [] OTHER -> [h |-> r.h, out |-> <<>>, st |-> r.st, v |-> r.v, none |-> FALSE]
        on(a) == first(Pull(a.h, a.it, MaxFuel), a.it)
    IN  on(Iter(h, self))

\* QList.sum and EagerQList.sum: the same code.
QList_sum(h, self) ==
    LET first(r, it) ==
            CASE r.st = "val" -> SumLoop(r.h, it, r.v, MaxFuel)
              [] r.st = "stop" -> [h |-> r.h, out |-> <<>>, st |-> "stop", v |-> 0, none |-> TRUE]
              [] OTHER -> [h |-> r.h, out |-> <<>>, st |-> r.st, v |-> r.v, none |-> FALSE]
        on(a) == first(Pull(a.h, a.it, MaxFuel), a.it)
    IN  on(Iter(h, self))

EagerQList_sum(h, self) ==
    LET first(r, it) ==
            CASE r.st = "val" -> SumLoop(r.h, it, r.v, MaxFuel)
              [] r.st = "stop" -> [h |-> r.h, out |-> <<>>, st |-> "stop", v |-> 0, none |-> TRUE]
              [] OTHER -> [h |-> r.h, out |-> <<>>, st |-> r.st, v |-> r.v, none |-> FALSE]
        on(a) == first(Pull(a.h, a.it, MaxFuel), a.it)
    IN  on(Iter(h, self))

\* for i, elem in self.enumerate(): if i == index: return elem
\* return default
RECURSIVE GetLoop(_, _, _, _, _)
GetLoop(h, it, index, default, fuel) ==
    LET on(r) ==
            CASE r.st = "val" ->
                    IF r.v[1] = index THEN [h |-> r.h, out |-> <<>>, st |-> "val", v |-> r.v[2]]
                    ELSE GetLoop(r.h, it, index, default, fuel - 1)
              [] r.st = "stop" -> [h |-> r.h, out |-> <<>>, st |-> "stop", v |-> default]
              [] OTHER -> [h |-> r.h, out |-> <<>>, st |-> r.st, v |-> r.v]
    IN  IF fuel <= 0 THEN [h |-> h, out |-> <<>>, st |-> "hang", v |-> 0]
        ELSE on(Pull(h, it, fuel))

\* A wrong get: a negative index counts from the end of what is collected.
Lazy_get_from_end(h, self, index, default) ==
    LET on(r) ==
            CASE r.st # "stop" -> [h |-> r.h, out |-> <<>>, st |-> r.st, v |-> r.v]
              [] index < 0 /\ Len(r.out) + index >= 0 ->
                    [h |-> r.h, out |-> <<>>, st |-> "stop", v |-> r.out[Len(r.out) + index + 1]]
              [] index >= 0 /\ index < Len(r.out) ->
                    [h |-> r.h, out |-> <<>>, st |-> "stop", v |-> r.out[index + 1]]
              [] OTHER -> [h |-> r.h, out |-> <<>>, st |-> "stop", v |-> default]
    IN  on(ForAll(h, self))

\* Lazy.get: if index < 0: return default; then the loop over
\* self.enumerate(), a new Lazy.
Lazy_get(h, self, index, default) ==
    LET on(a) == GetLoop(a.h, a.it, index, default, MaxFuel)
        over(h1) == on(Iter(h1, Top(h1)))
    IN  IF index < 0 THEN [h |-> h, out |-> <<>>, st |-> "val", v |-> default]
        ELSE over(Lazy_enumerate(h, self, 0))

\* A wrong get: a negative index counts from the end, as self[index] does.
EagerQList_get_from_end(h, self, index, default) ==
    LET s == h[self].seq
    IN  IF index >= Len(s) \/ index < 0 - Len(s)
        THEN [h |-> h, out |-> <<>>, st |-> "val", v |-> default]
        ELSE [h |-> h, out |-> <<>>, st |-> "val", v |-> s[IF index < 0 THEN Len(s) + index + 1 ELSE index + 1]]

\* QList.get and EagerQList.get:
\*   if index < 0 or index >= self.len(): return default
\*   return self[index]
QList_get(h, self, index, default) ==
    LET s == h[self].seq
    IN  IF index < 0 \/ index >= Len(s)
        THEN [h |-> h, out |-> <<>>, st |-> "val", v |-> default]
        ELSE [h |-> h, out |-> <<>>, st |-> "val", v |-> s[index + 1]]

EagerQList_get(h, self, index, default) ==
    LET s == h[self].seq
    IN  IF index < 0 \/ index >= Len(s)
        THEN [h |-> h, out |-> <<>>, st |-> "val", v |-> default]
        ELSE [h |-> h, out |-> <<>>, st |-> "val", v |-> s[index + 1]]

\* A wrong uncons: the tail wraps self.gen again instead of the iterator.
Lazy_uncons_rewraps(h, self) ==
    LET ret(r) ==
            CASE r.st = "hang" -> [h |-> r.h, st |-> "hang", none |-> FALSE, v |-> 0]
              [] r.st = "stop" -> [h |-> r.h, st |-> "ok", none |-> TRUE, v |-> 0]
              [] OTHER -> [h |-> Alloc(r.h, NewLazy(h[self].up)), st |-> "ok",
                           none |-> FALSE, v |-> r.v]
        head(a) == ret(Pull(a.h, a.it, MaxFuel))
    IN  head(Iter(h, self))

\* Lazy.uncons:
\*   it = self.iter()
\*   head = next(it)      (StopIteration: return None)
\*   return head, Lazy(it)
Lazy_uncons(h, self) ==
    LET ret(r, it) ==
            CASE r.st = "hang" -> [h |-> r.h, st |-> "hang", none |-> FALSE, v |-> 0]
              [] r.st = "stop" -> [h |-> r.h, st |-> "ok", none |-> TRUE, v |-> 0]
              [] OTHER -> [h |-> Alloc(r.h, NewLazy(it)), st |-> "ok",
                           none |-> FALSE, v |-> r.v]
        head(a) == ret(Pull(a.h, a.it, MaxFuel), a.it)
    IN  head(Iter(h, self))

RECURSIVE SplitLoop(_, _, _, _, _)

\* A wrong loop: the element that satisfies pred is left out of `left`.
SplitLoop_exclusive(h, it, pred, left, fuel) ==
    LET on(r) ==
            CASE r.st = "val" ->
                    IF Apply(pred, r.v)
                    THEN [h |-> r.h, st |-> "found", left |-> left]
                    ELSE SplitLoop(r.h, it, pred, Append(left, r.v), fuel - 1)
              [] r.st = "stop" -> [h |-> r.h, st |-> "end", left |-> left]
              [] OTHER -> [h |-> r.h, st |-> "hang", left |-> left]
    IN  IF fuel <= 0 THEN [h |-> h, st |-> "hang", left |-> left]
        ELSE on(Pull(h, it, fuel))

\* The loop of Lazy.split_when:
\*   for elem in it: left.append(elem); if pred(elem): return left, Lazy(it)
SplitLoop(h, it, pred, left, fuel) ==
    LET on(r) ==
            CASE r.st = "val" ->
                    IF Apply(pred, r.v)
                    THEN [h |-> r.h, st |-> "found", left |-> Append(left, r.v)]
                    ELSE SplitLoop(r.h, it, pred, Append(left, r.v), fuel - 1)
              [] r.st = "stop" -> [h |-> r.h, st |-> "end", left |-> left]
              [] OTHER -> [h |-> r.h, st |-> "hang", left |-> left]
    IN  IF fuel <= 0 THEN [h |-> h, st |-> "hang", left |-> left]
        ELSE on(Pull(h, it, fuel))

\* Lazy.split_when:
\*   left = QList(); it = self.iter()
\*   <the loop>
\*   if not left: return None
\*   return left, Lazy([])
Lazy_split_when(h, self, pred) ==
    LET ret(r, it) ==
            CASE r.st = "hang" -> [h |-> r.h, st |-> "hang", none |-> FALSE, left |-> r.left]
              [] r.st = "found" ->
                    [h |-> Alloc(r.h, NewLazy(it)), st |-> "ok", none |-> FALSE,
                     left |-> r.left]
              [] r.st = "end" /\ r.left = <<>> ->
                    [h |-> r.h, st |-> "ok", none |-> TRUE, left |-> <<>>]
              [] OTHER ->
                    [h |-> Alloc(Alloc(r.h, NewList(<<>>)), NewLazy(Len(r.h) + 1)),
                     st |-> "ok", none |-> FALSE, left |-> r.left]
        loop(a) == ret(SplitLoop(a.h, a.it, pred, <<>>, MaxFuel), a.it)
    IN  loop(Iter(h, self))

\* EagerQList.merge: the same heads and the same inner(), but what Lazy.merge
\* wraps in a Lazy is handed to EagerQList(...), which drains it at once.
EagerQList_merge(h, self, other, merger) ==
    LET drained(m) ==
            IF m.st = "hang" THEN [h |-> m.h, out |-> <<>>, st |-> "hang"]
            ELSE ForAll(m.h, Top(m.h))
    IN  drained(MergeHeads(h, self, other, merger))

\* EagerQList(inner()): the generator is drained at once into a new list,
\* res.
Eager(h, frame) ==
    LET built(d) ==
            IF d.st = "stop"
            THEN [h |-> Alloc(d.h, NewList(d.out)), out |-> d.out, st |-> d.st,
                  res |-> Len(d.h) + 1, v |-> 0]
            ELSE [h |-> d.h, out |-> d.out, st |-> d.st, res |-> 0, v |-> d.v]
    IN  built(Drain(Alloc(h, frame), Len(h) + 1, MaxFuel, <<>>))

\* EagerQList.window: the inner(n) of QList.window, drained at once.
EagerQList_window(h, self, window_size) ==
    Eager(h, [NewFrame("qwindow", self) EXCEPT !.n = window_size])

\* EagerQList.batch: the inner() of QList.batch, drained at once.
EagerQList_batch(h, self, size) == Eager(h, [NewFrame("qbatch", self) EXCEPT !.n = size])

\* EagerQList.flatten: the same inner(), drained at once.
EagerQList_flatten(h, self) == Eager(h, NewFrame("flatten", self))

\* EagerQList.take_while: the same inner(), drained at once.
EagerQList_take_while(h, self, pred) ==
    Eager(h, [NewFrame("take_while", self) EXCEPT !.fn = pred])

\* EagerQList.batch_by: the inner() of QList.batch_by, drained at once.
EagerQList_batch_by(h, self, grouper) ==
    Eager(h, [NewFrame("qbatch_by", self) EXCEPT !.fn = grouper])

\* EagerQList.full_flatten: the same inner(), drained at once (the nested
\* calls are EagerQList(elem).full_flatten, themselves drained).
EagerQList_full_flatten(h, self, break_str, preserve_type) ==
    Eager(h, [NewFrame("full_flatten", self) EXCEPT !.l = break_str, !.fn = preserve_type])

\* EagerQList.product and EagerQList.product_with: EagerQList(inner()).
EagerQList_product(h, self, other) ==
    Eager(h, [NewFrame("product", self) EXCEPT !.oth = other, !.fn = "None"])

EagerQList_product_with(h, self, other, operation) ==
    Eager(h, [NewFrame("product", self) EXCEPT !.oth = other, !.fn = operation])

\* ------------------------------------------------------------------ actions
take(self, n) ==
    /\ Running /\ IsLazy(self)
    /\ heap' = Lazy_take(heap, self, n)
    /\ last' = [Made("take", self, heap') EXCEPT !.n = n]

qtake(self, n) ==
    /\ Running /\ IsQList(self)
    /\ heap' = QList_take(heap, self, n)
    /\ last' = [Made("qtake", self, heap') EXCEPT !.n = n]

zip(self, other) ==
    /\ Running /\ IsLazy(self)
    /\ heap' = Lazy_zip(heap, self, other)
    /\ last' = [Made("zip", self, heap') EXCEPT !.n = other]

skip(self, n) ==
    /\ Running /\ IsLazy(self)
    /\ heap' = Lazy_skip(heap, self, n)
    /\ last' = [Made("skip", self, heap') EXCEPT !.n = n]

take_while(self, pred) ==
    /\ Running /\ IsLazy(self)
    /\ heap' = Lazy_take_while(heap, self, pred)
    /\ last' = [Made("take_while", self, heap') EXCEPT !.fn = pred]

enumerate(self, start) ==
    /\ Running /\ IsLazy(self)
    /\ heap' = Lazy_enumerate(heap, self, start)
    /\ last' = [Made("enumerate", self, heap') EXCEPT !.n = start]

scan(self, operation, state) ==
    /\ Running /\ IsLazy(self)
    /\ heap' = Lazy_scan(heap, self, operation, state)
    /\ last' = [Made("scan", self, heap') EXCEPT !.fn = operation, !.n = state]

flatmap(self, mapper) ==
    /\ Running /\ IsLazy(self)
    /\ heap' = Lazy_flatmap(heap, self, mapper)
    /\ last' = [Made("flatmap", self, heap') EXCEPT !.fn = mapper]

chain(self, other) ==
    /\ Running /\ IsLazy(self)
    /\ heap' = Lazy_chain(heap, self, other)
    /\ last' = [Made("chain", self, heap') EXCEPT !.n = other]

cycle(self) ==
    /\ Running /\ IsLazy(self)
    /\ heap' = Lazy_cycle(heap, self)
    /\ last' = Made("cycle", self, heap')

flatten(self) ==
    /\ Running /\ IsLazy(self)
    /\ heap' = Lazy_flatten(heap, self)
    /\ last' = Made("flatten", self, heap')

full_flatten(self, break_str, preserve_type) ==
    /\ Running /\ IsLazy(self)
    /\ heap' = Lazy_full_flatten(heap, self, break_str, preserve_type)
    /\ last' = Made("full_flatten", self, heap')

batch_by(self, grouper) ==
    /\ Running /\ IsLazy(self)
    /\ heap' = Lazy_batch_by(heap, self, grouper)
    /\ last' = [Made("batch_by", self, heap') EXCEPT !.fn = grouper]

\* A wrong batch: one without its assert.
batch_unchecked(self, size) ==
    /\ Running /\ IsLazy(self)
    /\ heap' = Lazy_batch(heap, self, size)
    /\ last' = [Made("batch", self, heap') EXCEPT !.n = size]

\* assert size > 0: an AssertionError leaves the call with nothing made.
batch(self, size) ==
    /\ Running /\ IsLazy(self)
    /\ IF size > 0
       THEN /\ heap' = Lazy_batch(heap, self, size)
            /\ last' = [Made("batch", self, heap') EXCEPT !.n = size]
       ELSE /\ heap' = heap
            /\ last' = [Call("batch", self, heap) EXCEPT !.n = size, !.st = "raise"]

window(self, window_size) ==
    /\ Running /\ IsLazy(self)
    /\ IF window_size > 0
       THEN /\ heap' = Lazy_window(heap, self, window_size)
            /\ last' = [Made("window", self, heap') EXCEPT !.n = window_size]
       ELSE /\ heap' = heap
            /\ last' = [Call("window", self, heap) EXCEPT !.n = window_size, !.st = "raise"]

merge(self, other, merger) ==
    /\ Running /\ IsLazy(self)
    /\ LET on(r) ==
               /\ heap' = r.h
               /\ last' = [Made("merge", self, r.h) EXCEPT
                              !.n = other, !.fn = merger, !.st = r.st]
       IN  on(Lazy_merge(heap, self, other, merger))

\* next(lazy.iter()) on a Lazy that wraps an iterator
next(self) ==
    /\ Running /\ IsLazy(self)
    /\ heap[heap[self].up].kind \notin {"list", "lazy"}
    /\ \A x \in DOMAIN heap : heap[x].kind = "naturals" => heap[x].i < MaxPulls
    /\ LET on(r) ==
               /\ heap' = r.h
               /\ last' = [Call("next", self, heap) EXCEPT
                              !.st = IF r.st = "hang" THEN "hang" ELSE "ok",
                              !.none = (r.st # "val"), !.v = r.v]
       IN  on(Pull(heap, heap[self].up, MaxFuel))

\* How a call that drained an iterator ended.
Outcome(r) == IF r.st \in {"hang", "raise"} THEN r.st ELSE "ok"

\* A terminal operation returned, hung or raised: what `last` says of it.
\* When it raised, v is the exception and out the elements that had been
\* yielded before it.
Ended(op, self, r, v) ==
    [Call(op, self, heap) EXCEPT
        !.st = Outcome(r), !.out = r.out, !.v = IF r.st = "raise" THEN r.v ELSE v,
        !.ran = IF r.st = "stop" THEN last.ran \cup {self} ELSE last.ran]

collect(self) ==
    /\ Running /\ IsLazy(self)
    /\ LET on(r) == heap' = r.h /\ last' = Ended("collect", self, r, 0)
       IN  on(Lazy_collect(heap, self))

qlist(self) ==
    /\ Running /\ IsLazy(self)
    /\ LET on(r) == heap' = r.h /\ last' = Ended("qlist", self, r, 0)
       IN  on(Lazy_qlist(heap, self))

list(self) ==
    /\ Running /\ IsLazy(self)
    /\ LET on(r) == heap' = r.h /\ last' = Ended("list", self, r, 0)
       IN  on(Lazy_list(heap, self))

fold(self, operation, init) ==
    /\ Running /\ IsLazy(self)
    /\ LET on(r) == heap' = r.h /\ last' = [Ended("fold", self, r, r.v) EXCEPT !.n = init]
       IN  on(Lazy_fold(heap, self, operation, init))

foreach(self) ==
    /\ Running /\ IsLazy(self)
    /\ LET on(r) == heap' = r.h /\ last' = Ended("foreach", self, r, 0)
       IN  on(Lazy_foreach(heap, self))

map(self, mapper) ==
    /\ Running /\ IsLazy(self)
    /\ heap' = Lazy_map(heap, self, mapper)
    /\ last' = [Made("map", self, heap') EXCEPT !.fn = mapper]

filter(self, pred) ==
    /\ Running /\ IsLazy(self)
    /\ heap' = Lazy_filter(heap, self, pred)
    /\ last' = [Made("filter", self, heap') EXCEPT !.fn = pred]

qmap(self, mapper) ==
    /\ Running /\ IsQList(self)
    /\ heap' = QList_map(heap, self, mapper)
    /\ last' = [Made("qmap", self, heap') EXCEPT !.fn = mapper]

qfilter(self, pred) ==
    /\ Running /\ IsQList(self)
    /\ heap' = QList_filter(heap, self, pred)
    /\ last' = [Made("qfilter", self, heap') EXCEPT !.fn = pred]

qskip(self, n) ==
    /\ Running /\ IsQList(self)
    /\ heap' = QList_skip(heap, self, n)
    /\ last' = [Made("qskip", self, heap') EXCEPT !.n = n]

qbatch(self, size) ==
    /\ Running /\ IsQList(self)
    /\ IF size > 0
       THEN /\ heap' = QList_batch(heap, self, size)
            /\ last' = [Made("qbatch", self, heap') EXCEPT !.n = size]
       ELSE /\ heap' = heap
            /\ last' = [Call("qbatch", self, heap) EXCEPT !.n = size, !.st = "raise"]

\* The list methods QList inherits: append, pop and item assignment.
append(self, x) ==
    /\ Running /\ IsQList(self)
    /\ heap' = [heap EXCEPT ![self].seq = Append(@, x)]
    /\ last' = [Call("append", self, heap) EXCEPT !.v = x]

pop(self) ==
    /\ Running /\ IsQList(self)
    /\ heap[self].seq # <<>>
    /\ heap' = [heap EXCEPT ![self].seq = SubSeq(@, 1, Len(@) - 1)]
    /\ last' = [Call("pop", self, heap) EXCEPT !.v = heap[self].seq[Len(heap[self].seq)]]

setitem(self, key, x) ==
    /\ Running /\ IsQList(self)
    /\ key \in 1..Len(heap[self].seq)
    /\ heap' = [heap EXCEPT ![self].seq[key] = x]
    /\ last' = [Call("setitem", self, heap) EXCEPT !.n = key, !.v = x]

\* uncons; out is the heads obtained so far by calling uncons on the
\* successive tails (it starts over when self is not the tail just returned).
uncons(self) ==
    /\ Running /\ IsLazy(self)
    /\ \A x \in DOMAIN heap : heap[x].kind = "naturals" => heap[x].i < MaxPulls
    /\ LET heads == IF last.op = "uncons" /\ self = last.lz THEN last.out ELSE <<>>
           on(r) ==
               /\ heap' = r.h
               /\ last' = [Call("uncons", self, heap) EXCEPT
                              !.st = r.st, !.none = r.none, !.v = r.v,
                              !.lz = IF r.st = "ok" /\ ~r.none THEN Top(r.h) ELSE 0,
                              !.out = IF r.st = "ok" /\ ~r.none THEN Append(heads, r.v)
                                      ELSE <<>>]
       IN  on(Lazy_uncons(heap, self))

\* split_when; out is `left`, lz is `right`.
split_when(self, pred) ==
    /\ Running /\ IsLazy(self)
    /\ \A x \in DOMAIN heap : heap[x].kind = "naturals" => heap[x].i < MaxPulls
    /\ LET on(r) ==
               /\ heap' = r.h
               /\ last' = [Call("split_when", self, heap) EXCEPT
                              !.fn = pred, !.st = r.st, !.none = r.none, !.out = r.left,
                              !.lz = IF r.st = "ok" /\ ~r.none THEN Top(r.h) ELSE 0]
       IN  on(Lazy_split_when(heap, self, pred))

qcycle(self) ==
    /\ Running /\ IsQList(self)
    /\ heap' = QList_cycle(heap, self)
    /\ last' = Made("qcycle", self, heap')

\* EagerQList(a).merge(other, merger)
emerge(self, other, merger) ==
    /\ Running /\ IsQList(self)
    /\ LET on(r) ==
               /\ heap' = r.h
               /\ last' = [Call("emerge", self, heap) EXCEPT
                              !.n = other, !.fn = merger, !.out = r.out,
                              !.st = IF r.st = "hang" THEN "hang" ELSE "ok"]
       IN  on(EagerQList_merge(heap, self, other, merger))

qwindow(self, window_size) ==
    /\ Running /\ IsQList(self)
    /\ IF window_size > 0
       THEN /\ heap' = QList_window(heap, self, window_size)
            /\ last' = [Made("qwindow", self, heap') EXCEPT !.n = window_size]
       ELSE /\ heap' = heap
            /\ last' = [Call("qwindow", self, heap) EXCEPT !.n = window_size, !.st = "raise"]

\* An eager operator returned (or hung): out is the elements of the list it
\* built and lz that list.
EagerEnded(op, self, r) ==
    [Call(op, self, heap) EXCEPT
        !.st = Outcome(r), !.out = r.out, !.lz = r.res, !.v = r.v]

ewindow(self, window_size) ==
    /\ Running /\ IsQList(self)
    /\ IF window_size > 0
       THEN LET on(r) ==
                    /\ heap' = r.h
                    /\ last' = [EagerEnded("ewindow", self, r) EXCEPT !.n = window_size]
            IN  on(EagerQList_window(heap, self, window_size))
       ELSE /\ heap' = heap
            /\ last' = [Call("ewindow", self, heap) EXCEPT !.n = window_size, !.st = "raise"]

ebatch(self, size) ==
    /\ Running /\ IsQList(self)
    /\ IF size > 0
       THEN LET on(r) ==
                    /\ heap' = r.h
                    /\ last' = [EagerEnded("ebatch", self, r) EXCEPT !.n = size]
            IN  on(EagerQList_batch(heap, self, size))
       ELSE /\ heap' = heap
            /\ last' = [Call("ebatch", self, heap) EXCEPT !.n = size, !.st = "raise"]

qflatten(self) ==
    /\ Running /\ IsQList(self)
    /\ heap' = QList_flatten(heap, self)
    /\ last' = Made("qflatten", self, heap')

eflatten(self) ==
    /\ Running /\ IsQList(self)
    /\ LET on(r) == heap' = r.h /\ last' = EagerEnded("eflatten", self, r)
       IN  on(EagerQList_flatten(heap, self))

qtake_while(self, pred) ==
    /\ Running /\ IsQList(self)
    /\ heap' = QList_take_while(heap, self, pred)
    /\ last' = [Made("qtake_while", self, heap') EXCEPT !.fn = pred]

etake_while(self, pred) ==
    /\ Running /\ IsQList(self)
    /\ LET on(r) == heap' = r.h /\ last' = [EagerEnded("etake_while", self, r) EXCEPT !.fn = pred]
       IN  on(EagerQList_take_while(heap, self, pred))

qbatch_by(self, grouper) ==
    /\ Running /\ IsQList(self)
    /\ heap' = QList_batch_by(heap, self, grouper)
    /\ last' = [Made("qbatch_by", self, heap') EXCEPT !.fn = grouper]

ebatch_by(self, grouper) ==
    /\ Running /\ IsQList(self)
    /\ LET on(r) == heap' = r.h /\ last' = [EagerEnded("ebatch_by", self, r) EXCEPT !.fn = grouper]
       IN  on(EagerQList_batch_by(heap, self, grouper))

qfull_flatten(self, break_str, preserve_type) ==
    /\ Running /\ IsQList(self)
    /\ heap' = QList_full_flatten(heap, self, break_str, preserve_type)
    /\ last' = Made("qfull_flatten", self, heap')

efull_flatten(self, break_str, preserve_type) ==
    /\ Running /\ IsQList(self)
    /\ LET on(r) == heap' = r.h /\ last' = EagerEnded("efull_flatten", self, r)
       IN  on(EagerQList_full_flatten(heap, self, break_str, preserve_type))

all(self, mapper) ==
    /\ Running /\ IsLazy(self)
    /\ LET on(r) == heap' = r.h /\ last' = [Ended("all", self, r, r.v) EXCEPT !.fn = mapper]
       IN  on(Lazy_all(heap, self, mapper))

any(self, mapper) ==
    /\ Running /\ IsLazy(self)
    /\ LET on(r) == heap' = r.h /\ last' = [Ended("any", self, r, r.v) EXCEPT !.fn = mapper]
       IN  on(Lazy_any(heap, self, mapper))

qall(self, mapper) ==
    /\ Running /\ IsQList(self)
    /\ LET on(r) == heap' = r.h /\ last' = [Ended("qall", self, r, r.v) EXCEPT !.fn = mapper]
       IN  on(QList_all(heap, self, mapper))

qany(self, mapper) ==
    /\ Running /\ IsQList(self)
    /\ LET on(r) == heap' = r.h /\ last' = [Ended("qany", self, r, r.v) EXCEPT !.fn = mapper]
       IN  on(QList_any(heap, self, mapper))

eall(self, mapper) ==
    /\ Running /\ IsQList(self)
    /\ LET on(r) == heap' = r.h /\ last' = [Ended("eall", self, r, r.v) EXCEPT !.fn = mapper]
       IN  on(EagerQList_all(heap, self, mapper))

eany(self, mapper) ==
    /\ Running /\ IsQList(self)
    /\ LET on(r) == heap' = r.h /\ last' = [Ended("eany", self, r, r.v) EXCEPT !.fn = mapper]
       IN  on(EagerQList_any(heap, self, mapper))

min(self, key) ==
    /\ Running /\ IsLazy(self)
    /\ LET on(r) ==
               /\ heap' = r.h
               /\ last' = [Ended("min", self, r, r.v) EXCEPT !.fn = key, !.none = r.none]
       IN  on(Lazy_min(heap, self, key))

max(self, key) ==
    /\ Running /\ IsLazy(self)
    /\ LET on(r) ==
               /\ heap' = r.h
               /\ last' = [Ended("max", self, r, r.v) EXCEPT !.fn = key, !.none = r.none]
       IN  on(Lazy_max(heap, self, key))

qmin(self, key) ==
    /\ Running /\ IsQList(self)
    /\ LET on(r) ==
               /\ heap' = r.h
               /\ last' = [Ended("qmin", self, r, r.v) EXCEPT !.fn = key, !.none = r.none]
       IN  on(QList_min(heap, self, key))

qmax(self, key) ==
    /\ Running /\ IsQList(self)
    /\ LET on(r) ==
               /\ heap' = r.h
               /\ last' = [Ended("qmax", self, r, r.v) EXCEPT !.fn = key, !.none = r.none]
       IN  on(QList_max(heap, self, key))

emin(self, key) ==
    /\ Running /\ IsQList(self)
    /\ LET on(r) ==
               /\ heap' = r.h
               /\ last' = [Ended("emin", self, r, r.v) EXCEPT !.fn = key, !.none = r.none]
       IN  on(EagerQList_min(heap, self, key))

emax(self, key) ==
    /\ Running /\ IsQList(self)
    /\ LET on(r) ==
               /\ heap' = r.h
               /\ last' = [Ended("emax", self, r, r.v) EXCEPT !.fn = key, !.none = r.none]
       IN  on(EagerQList_max(heap, self, key))

sum(self) ==
    /\ Running /\ IsLazy(self)
    /\ LET on(r) == heap' = r.h /\ last' = [Ended("sum", self, r, r.v) EXCEPT !.none = r.none]
       IN  on(Lazy_sum(heap, self))

qsum(self) ==
    /\ Running /\ IsQList(self)
    /\ LET on(r) == heap' = r.h /\ last' = [Ended("qsum", self, r, r.v) EXCEPT !.none = r.none]
       IN  on(QList_sum(heap, self))

esum(self) ==
    /\ Running /\ IsQList(self)
    /\ LET on(r) == heap' = r.h /\ last' = [Ended("esum", self, r, r.v) EXCEPT !.none = r.none]
       IN  on(EagerQList_sum(heap, self))

get(self, index, default) ==
    /\ Running /\ IsLazy(self)
    /\ LET on(r) == heap' = r.h /\ last' = [Ended("get", self, r, r.v) EXCEPT !.n = index]
       IN  on(Lazy_get(heap, self, index, default))

qget(self, index, default) ==
    /\ Running /\ IsQList(self)
    /\ LET on(r) == heap' = r.h /\ last' = [Ended("qget", self, r, r.v) EXCEPT !.n = index]
       IN  on(QList_get(heap, self, index, default))

eget(self, index, default) ==
    /\ Running /\ IsQList(self)
    /\ LET on(r) == heap' = r.h /\ last' = [Ended("eget", self, r, r.v) EXCEPT !.n = index]
       IN  on(EagerQList_get(heap, self, index, default))

eproduct(self, other) ==
    /\ Running /\ IsQList(self) /\ other \in DOMAIN heap
    /\ LET on(r) == heap' = r.h /\ last' = [EagerEnded("eproduct", self, r) EXCEPT !.fn = "None"]
       IN  on(EagerQList_product(heap, self, other))

eproduct_with(self, other, operation) ==
    /\ Running /\ IsQList(self) /\ other \in DOMAIN heap
    /\ LET on(r) ==
               /\ heap' = r.h
               /\ last' = [EagerEnded("eproduct_with", self, r) EXCEPT !.fn = operation]
       IN  on(EagerQList_product_with(heap, self, other, operation))

\* ------------------------------------- the shared operators, on a collection
\* QList.scan, flatmap, enumerate, chain: the inner() of the Lazy method with
\* `for elem in self` in place of `for elem in self.gen`, wrapped in a Lazy.
QList_scan(h, self, operation, state) ==
    Wrap(h, [NewFrame("scan", self) EXCEPT !.fn = operation, !.l = state])
QList_flatmap(h, self, mapper) == Wrap(h, [NewFrame("flatmap", self) EXCEPT !.fn = mapper])
QList_enumerate(h, self, start) == Wrap(h, [NewFrame("enumerate", self) EXCEPT !.n = start])
QList_chain(h, self, other) == Wrap(h, [NewFrame("chain", self) EXCEPT !.oth = other])

\* QList.zip: Lazy(zip(self, other))
QList_zip(h, self, other) ==
    LET a == Iter(h, self)
        b == Iter(a.h, other)
    IN  Wrap(b.h, [NewFrame("zip", self) EXCEPT
                      !.oth = other, !.it = a.it, !.oit = b.it, !.st = "loop"])

\* QList.fold and EagerQList.fold: acc = init; for elem in self: ...
QList_fold(h, self, operation, init) ==
    LET done(r) == [h |-> r.h, st |-> r.st, out |-> r.out,
                    v |-> FoldLeft(operation, init, r.out)]
        on(a) == done(Drain(a.h, a.it, MaxFuel, <<>>))
    IN  on(Iter(h, self))

EagerQList_fold(h, self, operation, init) ==
    LET done(r) == [h |-> r.h, st |-> r.st, out |-> r.out,
                    v |-> FoldLeft(operation, init, r.out)]
        on(a) == done(Drain(a.h, a.it, MaxFuel, <<>>))
    IN  on(Iter(h, self))

\* EagerQList.filter: EagerQList(elem for elem in self if pred(elem))
EagerQList_filter(h, self, pred) == Eager(h, [NewFrame("filter", self) EXCEPT !.fn = pred])

\* EagerQList.map: EagerQList(mapper(elem) for elem in self)
EagerQList_map(h, self, mapper) == Eager(h, [NewFrame("map", self) EXCEPT !.fn = mapper])

\* EagerQList.scan, enumerate, chain: EagerQList(inner())
EagerQList_scan(h, self, operation, state) ==
    Eager(h, [NewFrame("scan", self) EXCEPT !.fn = operation, !.l = state])
\* A wrong enumerate: one that counts from 0 whatever `start` is.
EagerQList_enumerate_from_zero(h, self, start) == Eager(h, NewFrame("enumerate", self))

EagerQList_enumerate(h, self, start) == Eager(h, [NewFrame("enumerate", self) EXCEPT !.n = start])
EagerQList_chain(h, self, other) == Eager(h, [NewFrame("chain", self) EXCEPT !.oth = other])

\* EagerQList.flatmap: EagerQList(x for elem in self for x in mapper(elem))
EagerQList_flatmap(h, self, mapper) == Eager(h, [NewFrame("flatmap", self) EXCEPT !.fn = mapper])

\* EagerQList.zip: EagerQList(zip(self, other))
EagerQList_zip(h, self, other) ==
    LET a == Iter(h, self)
        b == Iter(a.h, other)
    IN  Eager(b.h, [NewFrame("zip", self) EXCEPT
                       !.oth = other, !.it = a.it, !.oit = b.it, !.st = "loop"])

efold(self, operation, init) ==
    /\ Running /\ IsQList(self)
    /\ LET on(r) ==
               /\ heap' = r.h
               /\ last' = [Ended("efold", self, r, r.v) EXCEPT !.fn = operation, !.n = init]
       IN  on(EagerQList_fold(heap, self, operation, init))

efilter(self, pred) ==
    /\ Running /\ IsQList(self)
    /\ LET on(r) == heap' = r.h /\ last' = [EagerEnded("efilter", self, r) EXCEPT !.fn = pred]
       IN  on(EagerQList_filter(heap, self, pred))

emap(self, mapper) ==
    /\ Running /\ IsQList(self)
    /\ LET on(r) == heap' = r.h /\ last' = [EagerEnded("emap", self, r) EXCEPT !.fn = mapper]
       IN  on(EagerQList_map(heap, self, mapper))

escan(self, operation, state) ==
    /\ Running /\ IsQList(self)
    /\ LET on(r) ==
               /\ heap' = r.h
               /\ last' = [EagerEnded("escan", self, r) EXCEPT !.fn = operation, !.n = state]
       IN  on(EagerQList_scan(heap, self, operation, state))

eflatmap(self, mapper) ==
    /\ Running /\ IsQList(self)
    /\ LET on(r) == heap' = r.h /\ last' = [EagerEnded("eflatmap", self, r) EXCEPT !.fn = mapper]
       IN  on(EagerQList_flatmap(heap, self, mapper))

eenumerate(self, start) ==
    /\ Running /\ IsQList(self)
    /\ LET on(r) == heap' = r.h /\ last' = [EagerEnded("eenumerate", self, r) EXCEPT !.n = start]
       IN  on(EagerQList_enumerate(heap, self, start))

echain(self, other) ==
    /\ Running /\ IsQList(self)
    /\ LET on(r) == heap' = r.h /\ last' = [EagerEnded("echain", self, r) EXCEPT !.n = other]
       IN  on(EagerQList_chain(heap, self, other))

ezip(self, other) ==
    /\ Running /\ IsQList(self)
    /\ LET on(r) == heap' = r.h /\ last' = [EagerEnded("ezip", self, r) EXCEPT !.n = other]
       IN  on(EagerQList_zip(heap, self, other))

\* ------------------------------------------------------------ the sources
\* A program starts from one source: a QList, a Lazy over a list, a Lazy
\* over a generator of finitely many elements, or a Lazy over naturals().
Sources ==
    {<<NewList(s)>> : s \in Inputs}
        \cup {<<NewList(s), NewLazy(1)>> : s \in Inputs}
        \cup {<<NewGen(s), NewLazy(1)>> : s \in Inputs}
        \cup {<<NewNaturals(0), NewLazy(1)>>}

Frames(h) == {x \in DOMAIN h : h[x].kind \notin {"list", "gen", "naturals", "listiter", "lazy"}}

\* ----------------------------------------------------------------- take
\* Lazy(src).take(n) or QList(src).take(n), then pulled or collected.
InitTake == heap \in Sources /\ last = NoCall

NextTake ==
    \/ \E n \in (-1)..MaxN : Frames(heap) = {} /\ take(2, n)
    \/ \E n \in (-1)..MaxN : Frames(heap) = {} /\ qtake(1, n)
    \/ \E l \in DOMAIN heap : Frames(heap) # {} /\ l = Top(heap) /\ next(l)
    \/ \E l \in DOMAIN heap : Frames(heap) # {} /\ l = Top(heap) /\ collect(l)

SpecTake == InitTake /\ [][NextTake]_vars

\* C2: a take(n) frame never has more than max(n, 0) elements pulled from
\* the source it wraps.
C2_TakeNeverOverPulls ==
    \A f \in Frames(heap) :
        (heap[f].kind = "take" /\ heap[f].it # 0)
            => Pulled(heap, heap[f].it) <= Max(heap[f].n, 0)

\* ------------------------------------------------------------------ zip
\* Lazy(a).zip(b), then pulled or collected.
TwoSources ==
    {<<a, NewLazy(1), b>> :
        a \in {NewList(s) : s \in Inputs} \cup {NewGen(s) : s \in Inputs},
        b \in {NewList(s) : s \in Others} \cup {NewGen(s) : s \in Others}}

InitZip == heap \in TwoSources /\ last = NoCall

NextZip ==
    \/ Frames(heap) = {} /\ zip(2, 3)
    \/ \E l \in DOMAIN heap : Frames(heap) # {} /\ l = Top(heap) /\ next(l)
    \/ \E l \in DOMAIN heap : Frames(heap) # {} /\ l = Top(heap) /\ collect(l)

SpecZip == InitZip /\ [][NextZip]_vars

\* C3: zip consumes elements in pairs only: the two sides have always
\* handed out the same number of elements, so none was pulled unpaired.
C3_ZipPullsOnlyPairs ==
    \A z \in Frames(heap) :
        heap[z].kind = "zip" => Pulled(heap, heap[z].it) = Pulled(heap, heap[z].oit)

\* ------------------------------------------------------------- reuse
\* A Lazy over a list, a generator or a list's iterator, possibly mapped,
\* on which terminal operations are called again and again.
Terminals == {"collect", "qlist", "list", "fold", "foreach"}

InitReuse ==
    /\ heap \in {<<NewList(s), NewLazy(1)>> : s \in Inputs}
                \cup {<<NewGen(s), NewLazy(1)>> : s \in Inputs}
                \cup {Alloc(Iter(<<NewList(s)>>, 1).h, NewLazy(2)) : s \in Inputs}
    /\ last = NoCall

NextReuse ==
    \/ \E l \in DOMAIN heap : Len(heap) + 2 <= MaxObjs /\ map(l, "inc")
    \/ \E l \in DOMAIN heap : Len(heap) < MaxObjs /\ collect(l)
    \/ \E l \in DOMAIN heap : Len(heap) < MaxObjs /\ qlist(l)
    \/ \E l \in DOMAIN heap : Len(heap) < MaxObjs /\ list(l)
    \/ \E l \in DOMAIN heap : Len(heap) < MaxObjs /\ fold(l, "add", 0)
    \/ \E l \in DOMAIN heap : Len(heap) < MaxObjs /\ foreach(l)

SpecReuse == InitReuse /\ [][NextReuse]_vars

\* The result of a terminal operation is the empty one.
EmptyResult == last.out = <<>> /\ (last.op = "fold" => last.v = last.n)

\* C4 as stated: a terminal operation on a Lazy on which a terminal
\* operation has already completed yields the empty result, whatever the
\* Lazy wraps.
C4_ExhaustedYieldsEmpty ==
    (last.op \in Terminals /\ last.again /\ last.st = "ok") => EmptyResult

\* C4 as amended: that holds of a Lazy that wraps a one-shot iterator (a
\* generator, an iterator, the frame of a chainable operator); a Lazy that
\* wraps a list yields the list's elements on every terminal operation.
C4_OneShotYieldsEmpty ==
    (last.op \in Terminals /\ last.again /\ last.st = "ok")
        => IF OverCollection(heap, last.self)
           THEN last.out = heap[heap[last.self].up].seq
           ELSE EmptyResult

C4_Witness ==
    /\ last.op \in Terminals /\ last.again /\ last.st = "ok"
    /\ ~OverCollection(heap, last.self)
    /\ heap[heap[last.self].up].kind = "gen"
    /\ heap[heap[last.self].up].seq # <<>>

\* ------------------------------------------------------------- sharing
\* Two pipelines made by map or filter from a Lazy over a list or over a
\* generator (either from the same Lazy or one from the other), pulled in
\* any order.
\* The objects x refers to, and all it reaches through them.
Refs(h, x) == {h[x].up, h[x].oth, h[x].it, h[x].oit} \ {0}

RECURSIVE ReachFrom(_, _)
ReachFrom(h, S) ==
    LET more == S \cup UNION {Refs(h, x) : x \in S}
    IN  IF more = S THEN S ELSE ReachFrom(h, more)

Reach(h, x) == ReachFrom(h, {x})

\* The one-shot iterators: everything but the lists and the Lazy wrappers.
OneShot(h, x) == h[x].kind \notin {"list", "lazy"}

SharedIterators(h, a, b) == {x \in Reach(h, a) \cap Reach(h, b) : OneShot(h, x)}

\* What Lazy l would yield if it were drained in heap h.
Yields(h, l) == ForAll(h, l).out

InitShare ==
    /\ heap \in {<<NewList(s), NewLazy(1)>> : s \in Others}
                \cup {<<NewGen(s), NewLazy(1)>> : s \in Others}
    /\ last = NoCall

NextShare ==
    \/ \E l \in DOMAIN heap : Cardinality(Frames(heap)) < 2 /\ map(l, "inc")
    \/ \E l \in DOMAIN heap : Cardinality(Frames(heap)) < 2 /\ filter(l, "pos")
    \/ \E l \in DOMAIN heap : next(l)
    \/ \E l \in Lazies(heap) : ~OverCollection(heap, l) /\ collect(l)

SpecShare == InitShare /\ [][NextShare]_vars

Pulling == last.op \in {"next", "collect"} /\ last.st = "ok"

\* C5 as stated: pulling from one Lazy never changes what any other Lazy
\* yields.
C5_NoSharedState ==
    Pulling =>
        \A b \in Lazies(last.pre) \ {last.self} : Yields(heap, b) = Yields(last.pre, b)

\* C5 as amended: that holds of two Lazy objects from which no common
\* one-shot iterator can be reached.
C5_DisjointPipelinesIndependent ==
    Pulling =>
        \A b \in Lazies(last.pre) \ {last.self} :
            SharedIterators(last.pre, last.self, b) = {}
                => Yields(heap, b) = Yields(last.pre, b)

\* Two pipelines over one list: one was pulled, the other still yields.
C5_Witness ==
    /\ last.op = "next" /\ ~last.none
    /\ \E b \in Lazies(last.pre) \ {last.self} :
          /\ heap[heap[b].up].kind \in {"map", "filter"}
          /\ heap[heap[last.self].up].up = heap[heap[b].up].up
          /\ SharedIterators(last.pre, last.self, b) = {}
          /\ Yields(heap, b) # <<>>

\* --------------------------------------------------------- call time
\* Lazy(a).<operator>(...) with b as the `other` argument, then pulled.
Chainable ==
    {"filter", "map", "flatmap", "take", "skip", "take_while", "enumerate", "zip",
     "chain", "flatten", "cycle", "batch", "batch_by", "window", "merge", "scan",
     "full_flatten"}

\* The frames whose next() is modelled.
Pullable(h, l) ==
    h[h[l].up].kind \in
        {"listiter", "gen", "filter", "map", "flatmap", "take", "skip", "take_while",
         "enumerate", "zip", "chain", "cycle", "merge", "scan"}

InitCall == heap \in TwoSources /\ last = NoCall

NextCall ==
    \/ Lazies(heap) = {2} /\ filter(2, "pos")
    \/ Lazies(heap) = {2} /\ map(2, "inc")
    \/ Lazies(heap) = {2} /\ flatmap(2, "dup")
    \/ \E n \in 0..1 : Lazies(heap) = {2} /\ take(2, n)
    \/ \E n \in 0..1 : Lazies(heap) = {2} /\ skip(2, n)
    \/ Lazies(heap) = {2} /\ take_while(2, "pos")
    \/ Lazies(heap) = {2} /\ enumerate(2, 0)
    \/ Lazies(heap) = {2} /\ zip(2, 3)
    \/ Lazies(heap) = {2} /\ chain(2, 3)
    \/ Lazies(heap) = {2} /\ flatten(2)
    \/ Lazies(heap) = {2} /\ cycle(2)
    \/ \E n \in 0..1 : Lazies(heap) = {2} /\ batch(2, n)
    \/ Lazies(heap) = {2} /\ batch_by(2, "even")
    \/ \E n \in 0..1 : Lazies(heap) = {2} /\ window(2, n)
    \/ \E m \in {"lt", "true"} : Lazies(heap) = {2} /\ merge(2, 3, m)
    \/ Lazies(heap) = {2} /\ scan(2, "add", 0)
    \/ Lazies(heap) = {2} /\ full_flatten(2, TRUE, "None")
    \/ \E l \in Lazies(heap) : l # 2 /\ Pullable(heap, l) /\ next(l)

SpecCall == InitCall /\ [][NextCall]_vars

\* The generators and iterators that hand out the elements of a source.
SourceIterators(h) == {x \in DOMAIN h : IsSource(h, x)}

\* What x had handed out in the heap before the last call.
PulledBefore(x) == IF x \in DOMAIN last.pre THEN Pulled(last.pre, x) ELSE 0

\* C1: a call of a chainable operator pulls no element, from the
\* receiver's source or from `other`.
C1_NoPullAtCallTime ==
    last.op \in Chainable =>
        \A x \in SourceIterators(heap) : Pulled(heap, x) = PulledBefore(x)

\* ----------------------------------------------------------- snapshot
\* q = QList(s); p = q.<operator>(...); q is appended to, popped from or
\* overwritten; p.collect().
InitSnapshot == heap \in {<<NewList(s)>> : s \in Inputs} /\ last = NoCall

\* A pipeline has been made and nothing has pulled from it yet.
Undrained == \E f \in Frames(heap) : heap[f].st = "new"

NextSnapshot ==
    \/ Frames(heap) = {} /\ qmap(1, "id")
    \/ Frames(heap) = {} /\ qfilter(1, "even")
    \/ \E n \in 0..MaxN : Frames(heap) = {} /\ qtake(1, n)
    \/ \E n \in 0..MaxN : Frames(heap) = {} /\ qskip(1, n)
    \/ \E n \in 0..MaxOther : Frames(heap) = {} /\ qbatch(1, n)
    \/ \E x \in Elems : Undrained /\ Len(heap[1].seq) <= MaxLen /\ append(1, x)
    \/ Undrained /\ pop(1)
    \/ \E key \in 1..(MaxLen + 1), x \in Elems : Undrained /\ setitem(1, key, x)
    \/ \E l \in DOMAIN heap : Frames(heap) # {} /\ l = Top(heap) /\ collect(l)

SpecSnapshot == InitSnapshot /\ [][NextSnapshot]_vars

Mutators == {"append", "pop", "setitem"}

\* C6: appending to, popping from or overwriting the QList does not change
\* what a pipeline made from it, and not yet pulled, yields when drained.
C6_PipelineYieldsSnapshot ==
    last.op \in Mutators =>
        \A l \in Lazies(heap) :
            heap[heap[l].up].st = "new" => Yields(heap, l) = Yields(last.pre, l)

\* ------------------------------------------------------------- uncons
\* Lazy(src).uncons(), uncons() again on the tails (or on an older Lazy),
\* and the tails collected.
InitUncons ==
    /\ heap \in {<<NewList(s), NewLazy(1)>> : s \in Inputs}
                \cup {<<NewGen(s), NewLazy(1)>> : s \in Inputs}
                \cup {<<NewNaturals(0), NewLazy(1)>>}
    /\ last = NoCall

NextUncons ==
    \/ \E l \in DOMAIN heap : Len(heap) < MaxObjs /\ uncons(l)
    \/ \E l \in DOMAIN heap :
          Len(heap) < MaxObjs /\ (\A x \in DOMAIN heap : heap[x].kind # "naturals") /\ collect(l)

SpecUncons == InitUncons /\ [][NextUncons]_vars

\* The j-th element iterator it hands out.
Handed(h, it, j) ==
    CASE h[it].kind = "gen" -> h[it].seq[j]
      [] h[it].kind = "listiter" -> h[h[it].up].seq[j]
      [] h[it].kind = "naturals" -> j - 1

\* The iterator the last call got from self.iter().
SelfIter == Iter(last.pre, last.self).it

\* C7: uncons returns None exactly when self yields nothing; otherwise the
\* head is the first element self would have yielded, the tail wraps the
\* iterator and yields exactly the rest, exactly one element was pulled (and
\* only from that iterator), and the heads obtained on successive tails are
\* consecutive elements of the source: over naturals() from 0 they are
\* 0, 1, 2, ...
C7_UnconsSplitsHead ==
    (last.op = "uncons" /\ last.st = "ok") =>
        LET finite == heap[SelfIter].kind # "naturals"
            S == Yields(last.pre, last.self)
            k == Len(last.out)
        IN  IF last.none THEN finite /\ S = <<>>
            ELSE /\ heap[last.lz].up = SelfIter
                 /\ Pulled(heap, SelfIter) = PulledBefore(SelfIter) + 1
                 /\ \A x \in SourceIterators(heap) \ {SelfIter} :
                       Pulled(heap, x) = PulledBefore(x)
                 /\ last.v = Handed(heap, SelfIter, Pulled(heap, SelfIter))
                 /\ finite => /\ S # <<>>
                              /\ last.v = Head(S)
                              /\ Yields(heap, last.lz) = Tail(S)
                 /\ \A j \in 1..k :
                       last.out[j] = Handed(heap, SelfIter, Pulled(heap, SelfIter) - k + j)
                 /\ (~finite /\ k = Pulled(heap, SelfIter)) => last.out = [j \in 1..k |-> j - 1]

\* Three uncons calls on the successive tails of Lazy(naturals()).
C7_Witness ==
    /\ last.op = "uncons" /\ last.st = "ok" /\ ~last.none
    /\ heap[SelfIter].kind = "naturals"
    /\ last.out = <<0, 1, 2>>

\* ---------------------------------------------------------- split_when
\* Lazy(src).split_when(pred), split_when again on the right parts (or on an
\* older Lazy), and the right parts collected.
InitSplit ==
    /\ heap \in {<<NewList(s), NewLazy(1)>> : s \in Inputs}
                \cup {<<NewGen(s), NewLazy(1)>> : s \in Inputs}
                \cup {<<NewNaturals(0), NewLazy(1)>>}
    /\ last = NoCall

NextSplit ==
    \/ \E l \in DOMAIN heap, pred \in {"pos", "even", "is2"} :
          Len(heap) < MaxObjs /\ split_when(l, pred)
    \/ \E l \in DOMAIN heap :
          Len(heap) < MaxObjs /\ (\A x \in DOMAIN heap : heap[x].kind # "naturals") /\ collect(l)

SpecSplit == InitSplit /\ [][NextSplit]_vars

\* The positions of S whose element satisfies the pred of the last call.
Hits(S) == {j \in 1..Len(S) : Apply(last.fn, S[j])}

FirstHit(S) == CHOOSE j \in Hits(S) : \A i \in Hits(S) : j <= i

\* C8: with S what self would have yielded: None if S is empty; if S[j] is
\* the first element that satisfies pred, left is S[1..j], right wraps the
\* iterator and yields exactly the elements after S[j], and exactly j
\* elements were pulled; if no element of S satisfies pred, left is S and
\* right yields nothing.  Over naturals() left is the run of consecutive
\* numbers from the generator's position through the first that satisfies
\* pred, and right wraps the generator, which stands just after it.
C8_SplitWhenSplitsAtFirstHit ==
    (last.op = "split_when" /\ last.st = "ok") =>
        LET finite == heap[SelfIter].kind # "naturals"
            S == Yields(last.pre, last.self)
            c == PulledBefore(SelfIter)
            k == Len(last.out)
        IN  IF finite
            THEN CASE S = <<>> -> last.none
                   [] Hits(S) # {} ->
                        /\ ~last.none
                        /\ last.out = SubSeq(S, 1, FirstHit(S))
                        /\ heap[last.lz].up = SelfIter
                        /\ Yields(heap, last.lz) = SubSeq(S, FirstHit(S) + 1, Len(S))
                        /\ Pulled(heap, SelfIter) = c + FirstHit(S)
                   [] OTHER ->
                        /\ ~last.none
                        /\ last.out = S
                        /\ Yields(heap, last.lz) = <<>>
                        /\ Pulled(heap, SelfIter) = c + Len(S)
            ELSE /\ ~last.none
                 /\ k > 0
                 /\ last.out = [j \in 1..k |-> c + j - 1]
                 /\ Hits(last.out) = {k}
                 /\ heap[last.lz].up = SelfIter
                 /\ Pulled(heap, SelfIter) = c + k

\* split_when on the right part of an earlier split_when, with elements on
\* both sides of the second split point.
C8_Witness ==
    /\ last.op = "split_when" /\ last.st = "ok" /\ ~last.none
    /\ last.self # 2
    /\ heap[SelfIter].kind \in {"gen", "listiter"}
    /\ last.out # <<>> /\ Yields(heap, last.lz) # <<>>

\* --------------------------------------------------------------- cycle
\* Lazy(src).cycle() or QList(src).cycle(), then take(k) of it; either is
\* pulled or collected.
InitCycle ==
    /\ heap \in {<<NewList(s)>> : s \in Inputs}
                \cup {<<NewList(s), NewLazy(1)>> : s \in Inputs}
                \cup {<<NewGen(s), NewLazy(1)>> : s \in Inputs}
    /\ last = NoCall

NextCycle ==
    \/ Frames(heap) = {} /\ cycle(2)
    \/ Frames(heap) = {} /\ qcycle(1)
    \/ \E k \in 0..MaxTake :
          /\ Cardinality(Frames(heap)) = 1 /\ Undrained
          /\ take(Top(heap), k)
    \/ \E l \in DOMAIN heap : Frames(heap) # {} /\ l = Top(heap) /\ next(l)
    \/ \E l \in DOMAIN heap : Frames(heap) # {} /\ l = Top(heap) /\ collect(l)

SpecCycle == InitCycle /\ [][NextCycle]_vars

\* The elements of the source under x: x is a list, a generator, or a Lazy
\* or a frame over one.
RECURSIVE SourceSeq(_, _)
SourceSeq(h, x) == IF h[x].kind \in {"list", "gen"} THEN h[x].seq ELSE SourceSeq(h, h[x].up)

\* C9: collect() of cycle().take(k) returns, with exactly k elements, the
\* i-th being S[i mod L]; the source's iterator is the only one made, it
\* hands out no element twice, and every element once as soon as k >= L.
\* Over an empty source cycle() and cycle().take(k) both collect to
\* nothing and return; over a non-empty one cycle() alone never ends.
C9_CycleTakeIndexesModulo ==
    (last.op = "collect" /\ last.pre[last.pre[last.self].up].st = "new") =>
        LET f == heap[last.self].up
            S == SourceSeq(heap, f)
            L == Len(S)
            k == heap[f].n
            cyc == IF heap[f].kind = "take" THEN heap[heap[f].up].up ELSE f
        IN  /\ Cardinality({x \in DOMAIN heap : heap[x].kind = "listiter"}) <= 1
            /\ Pulled(heap, heap[cyc].it) <= L
            /\ heap[f].kind = "cycle" =>
                  IF L = 0 THEN last.st = "ok" /\ last.out = <<>> ELSE last.st = "hang"
            /\ heap[f].kind = "take" =>
                  /\ last.st = "ok"
                  /\ L = 0 => last.out = <<>>
                  /\ L > 0 => /\ Len(last.out) = k
                              /\ \A i \in 0..(k - 1) : last.out[i + 1] = S[(i % L) + 1]
                              /\ k >= L => Pulled(heap, heap[cyc].it) = L

\* cycle().take(k) collected with k more than twice the source's length.
C9_Witness ==
    /\ last.op = "collect" /\ last.st = "ok"
    /\ last.pre[last.pre[last.self].up].st = "new"
    /\ heap[heap[last.self].up].kind = "take"
    /\ Len(SourceSeq(heap, last.self)) >= 2
    /\ Len(last.out) > 2 * Len(SourceSeq(heap, last.self))

\* --------------------------------------------------------------- merge
\* Lazy(a).merge(b, cmp).collect(), and EagerQList(a).merge(b, cmp).
Mergers == {"lt", "le", "gt", "true", "false"}

InitMerge ==
    /\ heap \in {<<a, NewLazy(1), b>> :
                    a \in {NewList(s) : s \in Others} \cup {NewGen(s) : s \in Others},
                    b \in {NewList(s) : s \in Others} \cup {NewGen(s) : s \in Others}}
    /\ last = NoCall

NextMerge ==
    \/ \E m \in Mergers : Lazies(heap) = {2} /\ merge(2, 3, m)
    \/ \E m \in Mergers : Lazies(heap) = {2} /\ emerge(1, 3, m)
    \/ \E l \in DOMAIN heap : last.op = "merge" /\ l = last.lz /\ collect(l)

SpecMerge == InitMerge /\ [][NextMerge]_vars

\* What the merge of A and B under cmp is to be: while both have a head the
\* left one goes first iff cmp(left, right); then the rest of the other.
RECURSIVE RefMerge(_, _, _)
RefMerge(A, B, cmp) ==
    CASE A = <<>> -> B
      [] B = <<>> -> A
      [] OTHER -> IF Apply2(cmp, Head(A), Head(B))
                  THEN <<Head(A)>> \o RefMerge(Tail(A), B, cmp)
                  ELSE <<Head(B)>> \o RefMerge(A, Tail(B), cmp)

\* The merger of the merge whose result the last call produced.
MergerUsed ==
    LET fs == {f \in Frames(heap) : heap[f].kind = "merge"}
    IN  IF fs = {} THEN "true" ELSE heap[CHOOSE f \in fs : TRUE].fn

\* The last call produced the whole result of a merge: EagerQList.merge, or
\* the first collect() on what Lazy.merge returned.
MergeResult ==
    \/ last.op = "emerge"
    \/ last.op = "collect" /\ ~last.again

\* C10: the result has len(A) + len(B) elements and is the interleaving of
\* A and B that cmp decides.
C10_MergeInterleaves ==
    MergeResult =>
        /\ last.st = "ok"
        /\ Len(last.out) = Len(heap[1].seq) + Len(heap[3].seq)
        /\ last.out = RefMerge(heap[1].seq, heap[3].seq, MergerUsed)

\* A collected Lazy.merge of two non-empty inputs in which cmp held for one
\* pair of heads and failed for another.
C10_Witness ==
    /\ last.op = "collect" /\ ~last.again
    /\ Len(heap[1].seq) = 2 /\ Len(heap[3].seq) = 2
    /\ MergerUsed = "lt"
    /\ last.out \notin {heap[1].seq \o heap[3].seq, heap[3].seq \o heap[1].seq}

\* -------------------------------------------------------------- window
\* Lazy(src).window(a), QList(src).window(a) and EagerQList(src).window(a),
\* possibly followed by window(b) on the result; the lazy ones collected.
InitWindow ==
    /\ heap \in {<<NewList(s)>> : s \in Inputs}
                \cup {<<NewList(s), NewLazy(1)>> : s \in Inputs}
                \cup {<<NewGen(s), NewLazy(1)>> : s \in Inputs}
    /\ last = NoCall

NextWindow ==
    \/ \E n \in 1..MaxN : last.op = "init" /\ window(2, n)
    \/ \E n \in 1..MaxN : last.op = "init" /\ qwindow(1, n)
    \/ \E n \in 1..MaxN : last.op = "init" /\ ewindow(1, n)
    \/ \E n \in 1..MaxN :
          /\ last.op \in {"window", "qwindow"} /\ Cardinality(Frames(heap)) = 1
          /\ window(last.lz, n)
    \/ \E n \in 1..MaxN : last.op = "ewindow" /\ last.self = 1 /\ ewindow(last.lz, n)
    \/ \E l \in DOMAIN heap : last.op \in {"window", "qwindow"} /\ l = last.lz /\ collect(l)

SpecWindow == InitWindow /\ [][NextWindow]_vars

\* The sliding windows of length n over S.
Windows(S, n) == [i \in 1..Max(0, Len(S) - n + 1) |-> SubSeq(S, i, i + n - 1)]

\* The elements behind a value that is d levels of references deep.
RECURSIVE Deref(_, _, _)
Deref(h, v, d) ==
    IF d = 0 THEN v
    ELSE [i \in 1..Len(h[v.ref].seq) |-> Deref(h, h[v.ref].seq[i], d - 1)]

\* The window frames of the heap, in the order they were made.
WindowFrames == {f \in Frames(heap) : heap[f].kind \in {"window", "qwindow"}}

FirstWindow == CHOOSE f \in WindowFrames : \A g \in WindowFrames : f <= g

SecondWindow == CHOOSE f \in WindowFrames : \A g \in WindowFrames : f >= g

\* The last call produced all the windows: an EagerQList.window, or the
\* collect() of a window pipeline.
WindowResult == last.op \in {"ewindow", "collect"} /\ last.st = "ok"

\* C11: window(a) yields max(0, L - a + 1) windows, the i-th being the
\* slice S[i .. i+a-1]; window(a).window(b) yields the windows of length b
\* over those windows.
C11_WindowsAreSlices ==
    last.op \in {"ewindow", "collect"} =>
        LET S == heap[1].seq
            a == heap[FirstWindow].n
            b == heap[SecondWindow].n
            got(d) == [i \in 1..Len(last.out) |-> Deref(heap, last.out[i], d)]
        IN  /\ last.st = "ok"
            /\ IF Cardinality(WindowFrames) = 1
               THEN /\ Len(last.out) = Max(0, Len(S) - a + 1)
                    /\ \A i \in 1..Len(last.out) : Len(got(1)[i]) = a
                    /\ got(1) = Windows(S, a)
               ELSE got(2) = Windows(Windows(S, a), b)

\* A nested window with at least two outer windows, and a window of exactly
\* the receiver's length.
C11_Witness ==
    /\ WindowResult
    /\ Cardinality(WindowFrames) = 2
    /\ Len(last.out) >= 2
    /\ Len(heap[1].seq) = MaxLen

\* C12: every window is a list object made for it: it did not exist before
\* the call that produced it (so it is not the receiver) and no two windows
\* are the same object.
C12_WindowsAreFresh ==
    WindowResult =>
        /\ \A i \in 1..Len(last.out) : last.out[i].ref \notin DOMAIN last.pre
        /\ \A i, j \in 1..Len(last.out) : i # j => last.out[i].ref # last.out[j].ref

\* --------------------------------------------------------------- batch
\* Lazy(src).batch(size).collect(), QList(src).batch(size).collect() and
\* EagerQList(src).batch(size).
InitBatch ==
    /\ heap \in {<<NewList(s)>> : s \in Inputs}
                \cup {<<NewList(s), NewLazy(1)>> : s \in Inputs}
                \cup {<<NewGen(s), NewLazy(1)>> : s \in Inputs}
    /\ last = NoCall

NextBatch ==
    \/ \E n \in 1..MaxN : last.op = "init" /\ batch(2, n)
    \/ \E n \in 1..MaxN : last.op = "init" /\ qbatch(1, n)
    \/ \E n \in 1..MaxN : last.op = "init" /\ ebatch(1, n)
    \/ \E l \in DOMAIN heap : last.op \in {"batch", "qbatch"} /\ l = last.lz /\ collect(l)

SpecBatch == InitBatch /\ [][NextBatch]_vars

\* The concatenation of the sequences in ss.
RECURSIVE Flat(_)
Flat(ss) == IF ss = <<>> THEN <<>> ELSE Head(ss) \o Flat(Tail(ss))

\* ceil(a / b) for b > 0.
CeilDiv(a, b) == (a + b - 1) \div b

\* The size given to the batch whose result the last call produced.
BatchSize == heap[CHOOSE f \in Frames(heap) : heap[f].kind \in {"batch", "qbatch"}].n

\* C13: batch(size) yields ceil(L / size) batches, all of `size` elements
\* but the last, which has from 1 to `size`, and their concatenation is S.
C13_BatchesPartitionSource ==
    last.op \in {"ebatch", "collect"} =>
        LET S == heap[1].seq
            k == Len(last.out)
        IN  /\ last.st = "ok"
            /\ k = CeilDiv(Len(S), BatchSize)
            /\ \A i \in 1..k : Len(last.out[i]) \in 1..BatchSize
            /\ \A i \in 1..(k - 1) : Len(last.out[i]) = BatchSize
            /\ Flat(last.out) = S

\* A collected batch pipeline whose last batch is shorter than the others.
C13_Witness ==
    /\ last.op = "collect" /\ last.st = "ok"
    /\ Len(last.out) >= 2
    /\ Len(last.out[Len(last.out)]) < BatchSize

\* ------------------------------------------------------ size validation
\* batch(size) and window(window_size) of Lazy, QList and EagerQList, called
\* with sizes around 0 on a source that may have been pulled from already.
InitSized == heap \in Sources /\ last = NoCall

NextSized ==
    \/ \E l \in DOMAIN heap : l = Top(heap) /\ next(l)
    \/ \E n \in (-1)..1 : Frames(heap) = {} /\ batch(2, n)
    \/ \E n \in (-1)..1 : Frames(heap) = {} /\ window(2, n)
    \/ \E n \in (-1)..1 : Frames(heap) = {} /\ qbatch(1, n)
    \/ \E n \in (-1)..1 : Frames(heap) = {} /\ qwindow(1, n)
    \/ \E n \in (-1)..1 : Frames(heap) = {} /\ ebatch(1, n)
    \/ \E n \in (-1)..1 : Frames(heap) = {} /\ ewindow(1, n)

SpecSized == InitSized /\ [][NextSized]_vars

Sized == {"batch", "window", "qbatch", "qwindow", "ebatch", "ewindow"}

\* C14: a batch or window call with a size <= 0 raises, and only such a
\* call does; the call that raised changed nothing (no element pulled, no
\* object made) and returned nothing.
C14_BadSizeRaisesAtCall ==
    last.op \in Sized =>
        /\ last.st = "raise" <=> last.n <= 0
        /\ last.st = "raise" => heap = last.pre /\ last.lz = 0

\* Lazy.batch with a bad size on a Lazy over a generator that had already
\* handed out an element.
C14_Witness ==
    /\ last.op = "batch" /\ last.st = "raise"
    /\ heap[1].kind = "gen" /\ Pulled(heap, 1) > 0 /\ Pulled(heap, 1) < Len(heap[1].seq)

\* ------------------------------------------------------------- flatten
\* The elements of the nested sources: an int, strings of 0 to 2
\* characters, lists and a tuple of these, and lists of lists.
NestedElems ==
    {PyInt(0), PyStr(<<>>), PyStr(<<"a">>), PyStr(<<"a", "b">>),
     PyList(<<>>), PyList(<<PyInt(0), PyInt(1)>>), PyTuple(<<PyStr(<<"a", "b">>)>>),
     PyList(<<PyList(<<>>), PyList(<<PyStr(<<"a", "b">>), PyInt(1)>>)>>)}

NestedInputs == SeqsUpTo(NestedElems, MaxOther)

\* Lazy(src).flatten().collect(), QList(src).flatten().collect() and
\* EagerQList(src).flatten().
InitFlatten ==
    /\ heap \in {<<NewList(s)>> : s \in NestedInputs}
                \cup {<<NewList(s), NewLazy(1)>> : s \in NestedInputs}
                \cup {<<NewGen(s), NewLazy(1)>> : s \in NestedInputs}
    /\ last = NoCall

NextFlatten ==
    \/ last.op = "init" /\ flatten(2)
    \/ last.op = "init" /\ qflatten(1)
    \/ last.op = "init" /\ eflatten(1)
    \/ \E l \in DOMAIN heap : last.op \in {"flatten", "qflatten"} /\ l = last.lz /\ collect(l)

SpecFlatten == InitFlatten /\ [][NextFlatten]_vars

\* The positions of S that hold an element that is not iterable.
NotIterable(S) == {j \in 1..Len(S) : ~IsIterable(S[j])}

FirstNotIterable(S) == CHOOSE j \in NotIterable(S) : \A i \in NotIterable(S) : j <= i

\* The one-level concatenation of the elements of S.
Concat(S) == Flat([j \in 1..Len(S) |-> Items(S[j])])

\* C15: Lazy.flatten and QList.flatten return without raising and without
\* pulling.  Draining the result, or calling EagerQList.flatten, gives the
\* one-level concatenation if every element is iterable; otherwise it
\* raises the TypeError that names the type of the first element that is
\* not, after the items of the elements before it have been yielded and
\* when exactly the elements up to it have been pulled.
C15_FlattenRaisesAtElement ==
    LET S == heap[1].seq
        j == FirstNotIterable(S)
    IN  /\ last.op \in {"flatten", "qflatten"} =>
              /\ last.st = "ok"
              /\ \A x \in SourceIterators(heap) : Pulled(heap, x) = 0
        /\ last.op \in {"collect", "eflatten"} =>
              IF NotIterable(S) = {}
              THEN last.st = "ok" /\ last.out = Concat(S)
              ELSE /\ last.st = "raise"
                   /\ last.v = TypeError(S[j])
                   /\ last.out = Concat(SubSeq(S, 1, j - 1))
                   /\ \A x \in SourceIterators(heap) : Pulled(heap, x) = j

\* A drained flatten that yielded items and then raised.
C15_Witness ==
    /\ last.op = "collect" /\ last.st = "raise"
    /\ last.out # <<>>
    /\ last.v = TypeError(PyInt(0))

\* ------------------------------------------------------- take's result
\* The last call drained a pipeline that had not been pulled before.
FirstDrain ==
    /\ last.op = "collect"
    /\ last.pre[last.pre[last.self].up].st = "new"

\* C16: take(n).collect() is the first min(max(n, 0), len(S)) elements of
\* S; over naturals() it is 0, 1, ..., n - 1.
C16_TakeYieldsPrefix ==
    (FirstDrain /\ heap[heap[last.self].up].kind = "take") =>
        LET n == Max(heap[heap[last.self].up].n, 0)
        IN  /\ last.st = "ok"
            /\ IF heap[1].kind = "naturals"
               THEN last.out = [i \in 1..n |-> i - 1]
               ELSE /\ Len(last.out) = Min(n, Len(heap[1].seq))
                    /\ last.out = SubSeq(heap[1].seq, 1, Min(n, Len(heap[1].seq)))

\* take(n).collect() with 0 < n < len(S).
C16_Witness ==
    /\ FirstDrain /\ last.st = "ok"
    /\ heap[heap[last.self].up].kind = "take"
    /\ heap[1].kind \in {"list", "gen"}
    /\ last.out # <<>> /\ Len(last.out) < Len(heap[1].seq)

\* ---------------------------------------------------------- take_while
\* Lazy(src).take_while(pred), QList(src).take_while(pred), pulled and
\* collected again and again, and EagerQList(src).take_while(pred).
InitTakeWhile == heap \in Sources /\ last = NoCall

NextTakeWhile ==
    \/ \E pred \in {"even", "pos", "true"} : last.op = "init" /\ take_while(2, pred)
    \/ \E pred \in {"even", "pos", "true"} : last.op = "init" /\ qtake_while(1, pred)
    \/ \E pred \in {"even", "pos", "true"} : last.op = "init" /\ etake_while(1, pred)
    \/ \E l \in DOMAIN heap : Frames(heap) # {} /\ l = Top(heap) /\ next(l)
    \/ \E l \in DOMAIN heap : Frames(heap) # {} /\ l = Top(heap) /\ collect(l)

SpecTakeWhile == InitTakeWhile /\ [][NextTakeWhile]_vars

\* The source's elements; of naturals(), as many as a run can reach.
SourceElems == IF heap[1].kind = "naturals" THEN [i \in 1..(MaxPulls + 2) |-> i - 1]
               ELSE heap[1].seq

\* The positions of the source whose element fails pred.
Fails(pred) == {j \in 1..Len(SourceElems) : ~Apply(pred, SourceElems[j])}

\* The first of them, or one past the end if there is none.
FirstFail(pred) ==
    IF Fails(pred) = {} THEN Len(SourceElems) + 1
    ELSE CHOOSE j \in Fails(pred) : \A i \in Fails(pred) : j <= i

\* C17: the source of a take_while is never pulled past the first element
\* that fails pred, and what take_while yields when drained is the prefix
\* before that element.
C17_TakeWhileStopsForGood ==
    \A f \in Frames(heap) :
        heap[f].kind = "take_while" =>
            LET j == FirstFail(heap[f].fn)
                finite == heap[1].kind # "naturals" \/ Fails(heap[f].fn) # {}
            IN  /\ (heap[f].it # 0 /\ finite) =>
                      Pulled(heap, heap[f].it) <= Min(j, Len(SourceElems))
                /\ (last.op = "etake_while" \/ FirstDrain) /\ finite =>
                      /\ last.st = "ok"
                      /\ last.out = SubSeq(SourceElems, 1, j - 1)
                /\ (last.op = "collect" /\ ~FirstDrain /\ last.st = "ok"
                        /\ last.pre[f].st = "done") => last.out = <<>>

\* A drained take_while that stopped at a failing element with an element
\* that satisfies pred after it.
C17_Witness ==
    /\ FirstDrain /\ last.st = "ok"
    /\ \E f \in Frames(heap) :
          /\ heap[f].kind = "take_while"
          /\ last.out # <<>>
          /\ \E j \in (Len(last.out) + 2)..Len(heap[1].seq) : Apply(heap[f].fn, heap[1].seq[j])

\* ------------------------------------------------------------ batch_by
\* Lazy(src).batch_by(key).collect(), QList(src).batch_by(key).collect() and
\* EagerQList(src).batch_by(key).
InitBatchBy ==
    /\ heap \in {<<NewList(s)>> : s \in Inputs}
                \cup {<<NewList(s), NewLazy(1)>> : s \in Inputs}
                \cup {<<NewGen(s), NewLazy(1)>> : s \in Inputs}
    /\ last = NoCall

NextBatchBy ==
    \/ \E k \in {"id", "even", "true"} : last.op = "init" /\ batch_by(2, k)
    \/ \E k \in {"id", "even", "true"} : last.op = "init" /\ qbatch_by(1, k)
    \/ \E k \in {"id", "even", "true"} : last.op = "init" /\ ebatch_by(1, k)
    \/ \E l \in DOMAIN heap : last.op \in {"batch_by", "qbatch_by"} /\ l = last.lz /\ collect(l)

SpecBatchBy == InitBatchBy /\ [][NextBatchBy]_vars

\* The key function given to the batch_by whose result the last call produced.
Grouper == heap[CHOOSE f \in Frames(heap) : heap[f].kind \in {"batch_by", "qbatch_by"}].fn

\* C18: the groups are non-empty, their concatenation is S, the elements of
\* one group have equal keys, and the last element of a group and the first
\* of the next have different keys.
C18_BatchByGroupsAdjacentKeys ==
    last.op \in {"ebatch_by", "collect"} =>
        LET k == Len(last.out)
            key(x) == Apply(Grouper, x)
        IN  /\ last.st = "ok"
            /\ Flat(last.out) = heap[1].seq
            /\ \A i \in 1..k :
                  /\ last.out[i] # <<>>
                  /\ \A a, b \in 1..Len(last.out[i]) : key(last.out[i][a]) = key(last.out[i][b])
            /\ \A i \in 1..(k - 1) :
                  key(last.out[i][Len(last.out[i])]) # key(last.out[i + 1][1])

\* Three groups, the key of the first coming back in the third.
C18_Witness ==
    /\ last.op = "collect" /\ last.st = "ok"
    /\ Len(last.out) = 3
    /\ Apply(Grouper, last.out[1][1]) = Apply(Grouper, last.out[3][1])

\* ------------------------------------------------------------ full_flatten
\* The values passed as preserve_type: None or a type.
PreserveTypes == {"None", "str", "list", "tuple"}

\* Lazy(src).full_flatten(b, p).collect(), QList(src).full_flatten(b, p).collect()
\* and EagerQList(src).full_flatten(b, p).
InitFullFlatten ==
    /\ heap \in {<<NewList(s)>> : s \in NestedInputs}
                \cup {<<NewList(s), NewLazy(1)>> : s \in NestedInputs}
                \cup {<<NewGen(s), NewLazy(1)>> : s \in NestedInputs}
    /\ last = NoCall

NextFullFlatten ==
    \/ \E b \in BOOLEAN, p \in PreserveTypes : last.op = "init" /\ full_flatten(2, b, p)
    \/ \E b \in BOOLEAN, p \in PreserveTypes : last.op = "init" /\ qfull_flatten(1, b, p)
    \/ \E b \in BOOLEAN, p \in PreserveTypes : last.op = "init" /\ efull_flatten(1, b, p)
    \/ \E l \in DOMAIN heap :
          last.op \in {"full_flatten", "qfull_flatten"} /\ l = last.lz /\ collect(l)

SpecFullFlatten == InitFullFlatten /\ [][NextFullFlatten]_vars

\* The full_flatten whose result the last call produced.
Flattener == heap[CHOOSE f \in Frames(heap) : heap[f].kind = "full_flatten"]

\* The leaves of one element, by the rules in the order the claim gives them.
RECURSIVE Leaves(_, _, _)
Leaves(elem, break_str, preserve_type) ==
    CASE preserve_type # "None" /\ elem.t = preserve_type -> <<elem>>
      [] elem.t = "str" /\ ~break_str -> <<elem>>
      [] elem.t = "str" /\ Len(elem.v) = 1 -> <<elem>>
      [] elem.t = "str" -> [i \in 1..Len(elem.v) |-> PyStr(<<elem.v[i]>>)]
      [] elem.t \in {"list", "tuple"} ->
            Flat([i \in 1..Len(elem.v) |-> Leaves(elem.v[i], break_str, preserve_type)])
      [] OTHER -> <<elem>>

\* C19: full_flatten yields the leaves of the source's elements, depth first
\* and left to right: an instance of preserve_type whole, else a string
\* whole (break_str false), as is (length 1) or as its characters, else an
\* iterable's leaves, else the element.
C19_FullFlattenYieldsLeaves ==
    last.op \in {"efull_flatten", "collect"} =>
        /\ last.st = "ok"
        /\ last.out = Flat([j \in 1..Len(heap[1].seq) |->
                                Leaves(heap[1].seq[j], Flattener.l, Flattener.fn)])

\* preserve_type = str with break_str true: a two-character string nested
\* in a tuple comes out whole, and the tuple does not.
C19_Witness ==
    /\ last.op = "collect" /\ last.st = "ok"
    /\ Flattener.l /\ Flattener.fn = "str"
    /\ \E j \in 1..Len(heap[1].seq) : heap[1].seq[j] = PyTuple(<<PyStr(<<"a", "b">>)>>)
    /\ \E j \in 1..Len(last.out) : last.out[j] = PyStr(<<"a", "b">>)
    /\ \A j \in 1..Len(last.out) : last.out[j].t # "tuple"

\* ------------------------------------------------------------ all, any
\* all and any, with and without a mapper, on a Lazy over a list, a
\* generator or naturals(), and on a QList and an EagerQList; a second call
\* on the same receiver sees what the first one left.
Mappers == {"None", "even"}

InitAllAny == heap \in Sources /\ last = NoCall

Fresh == Len(heap) <= 3 /\ PulledBefore(1) = 0

NextAllAny ==
    \/ \E m \in Mappers : Fresh /\ all(2, m)
    \/ \E m \in Mappers : Fresh /\ any(2, m)
    \/ \E m \in Mappers : Fresh /\ qall(1, m)
    \/ \E m \in Mappers : Fresh /\ qany(1, m)
    \/ \E m \in Mappers : Fresh /\ eall(1, m)
    \/ \E m \in Mappers : Fresh /\ eany(1, m)

SpecAllAny == InitAllAny /\ [][NextAllAny]_vars

\* The elements the receiver had to give when the last call began: a list
\* all of its elements, a generator those not yet pulled; of naturals(), as
\* many as a run can reach.
Offered ==
    CASE heap[1].kind = "list" -> heap[1].seq
      [] heap[1].kind = "gen" -> SliceFrom(heap[1].seq, PulledBefore(1))
      [] OTHER -> [i \in 1..MaxPulls |-> PulledBefore(1) + i - 1]

\* How many elements the last call pulled from the receiver's source.
PulledByCall ==
    IF heap[1].kind = "list" THEN Pulled(heap, Top(heap))
    ELSE Pulled(heap, 1) - PulledBefore(1)

\* The positions of Offered whose element maps to a falsy (truthy) value.
Falsy == {j \in 1..Len(Offered) : ~Truthy(last.fn, Offered[j])}
Truthies == {j \in 1..Len(Offered) : Truthy(last.fn, Offered[j])}
Least(P) == CHOOSE j \in P : \A i \in P : j <= i

Keys == {"None", "zero", "neg"}

InitMinMax == heap \in Sources /\ last = NoCall

NextMinMax ==
    \/ \E k \in Keys : Fresh /\ min(2, k)
    \/ \E k \in Keys : Fresh /\ max(2, k)
    \/ \E k \in Keys : Fresh /\ qmin(1, k)
    \/ \E k \in Keys : Fresh /\ qmax(1, k)
    \/ \E k \in Keys : Fresh /\ emin(1, k)
    \/ \E k \in Keys : Fresh /\ emax(1, k)

SpecMinMax == InitMinMax /\ [][NextMinMax]_vars

\* The positions of Offered whose key is minimal (maximal).
Minimal == {j \in 1..Len(Offered) :
               \A i \in 1..Len(Offered) : Key(last.fn, Offered[j]) <= Key(last.fn, Offered[i])}
Maximal == {j \in 1..Len(Offered) :
               \A i \in 1..Len(Offered) : Key(last.fn, Offered[i]) <= Key(last.fn, Offered[j])}

\* C21: min returns the first element whose key is minimal, max the first
\* whose key is maximal, and both return None on an empty sequence.
C21_MinMaxFirstWins ==
    /\ (last.op \in {"min", "qmin", "emin"} /\ last.st = "ok") =>
          IF Offered = <<>> THEN last.none
          ELSE ~last.none /\ last.v = Offered[Least(Minimal)]
    /\ (last.op \in {"max", "qmax", "emax"} /\ last.st = "ok") =>
          IF Offered = <<>> THEN last.none
          ELSE ~last.none /\ last.v = Offered[Least(Maximal)]
    /\ (last.op \in {"min", "qmin", "emin", "max", "qmax", "emax"}
            /\ heap[1].kind # "naturals") => last.st = "ok"

\* Lazy.min returned, and two different elements tie on the minimal key.
C21_Witness ==
    /\ last.op = "min" /\ last.st = "ok" /\ ~last.none
    /\ \E i, j \in Minimal : Offered[i] # Offered[j]

\* ------------------------------------------------------------ sum
\* sum() on a Lazy over a list, a generator or naturals(), on a Lazy made by
\* filter (which may let nothing through), on a QList and on an EagerQList;
\* the Lazy may be summed a second time.
InitSum == heap \in Sources /\ last = NoCall

NextSum ==
    \/ \E pred \in {"pos", "false"} : last.op = "init" /\ filter(2, pred)
    \/ \E l \in DOMAIN heap :
          /\ \/ last.op \in {"init", "filter"} /\ \A x \in Lazies(heap) : x <= l
             \/ last.op = "sum" /\ ~last.again /\ l = last.self
          /\ sum(l)
    \/ last.op = "init" /\ qsum(1)
    \/ last.op = "init" /\ esum(1)

SpecSum == InitSum /\ [][NextSum]_vars

\* The elements the receiver of the last sum had to give: those offered by
\* the source, less what a filter in between holds back; nothing when the
\* filter's generator had already finished.
Summed ==
    LET f == IF last.op = "sum" THEN heap[last.self].up ELSE 1
        pass(x) == Apply(heap[f].fn, x)
    IN  CASE heap[f].kind # "filter" -> Offered
          [] last.pre[f].st = "done" -> <<>>
          [] OTHER -> SelectSeq(Offered, pass)

\* C22: sum returns None on an empty sequence, and otherwise the elements
\* added left to right from the first one, which is fold(+, 0).
C22_SumFoldsFromFirst ==
    (last.op \in {"sum", "qsum", "esum"} /\ heap[1].kind # "naturals") =>
        /\ last.st = "ok"
        /\ IF Summed = <<>> THEN last.none
           ELSE /\ ~last.none
                /\ last.v = FoldLeft("add", Head(Summed), Tail(Summed))
                /\ last.v = FoldLeft("add", 0, Summed)
                /\ Len(Summed) = 1 => last.v = Summed[1]

\* A sum of several elements that are not all 0.
C22_Witness ==
    /\ last.op \in {"sum", "qsum", "esum"} /\ last.st = "ok"
    /\ Len(Summed) >= 2 /\ last.v >= 2

\* C23, as the code has it: sum() on a Lazy that has no elements returns
\* None and raises nothing.
C23_EmptyLazySumReturnsNone ==
    (last.op = "sum" /\ heap[1].kind # "naturals" /\ Summed = <<>>) =>
        last.st = "ok" /\ last.none

\* C23, as stated: sum() on a Lazy that has no elements raises.
C23_EmptyLazySumRaises ==
    (last.op = "sum" /\ heap[1].kind # "naturals" /\ Summed = <<>>) => last.st = "raise"

\* sum() on a Lazy whose filter let none of a non-empty source through.
C23_Witness ==
    /\ last.op = "sum" /\ last.st = "ok" /\ last.none
    /\ heap[heap[last.self].up].kind = "filter"
    /\ heap[1].kind \in {"list", "gen"} /\ heap[1].seq # <<>>
    /\ ~last.again

\* ------------------------------------------------------------ get
\* The default the tests pass, which is no element of any source.
Default == 100

Indexes == (0 - MaxLen)..MaxLen

\* get(index, Default) on a Lazy over a list, a generator or naturals(), on
\* a QList and on an EagerQList; a Lazy may be asked again.
InitGet == heap \in Sources /\ last = NoCall

NextGet ==
    \/ \E index \in Indexes : Fresh /\ get(2, index, Default)
    \/ \E index \in Indexes : Fresh /\ qget(1, index, Default)
    \/ \E index \in Indexes : Fresh /\ eget(1, index, Default)

SpecGet == InitGet /\ [][NextGet]_vars

\* C24: Lazy.get raises nothing; a negative index gives default and pulls
\* nothing; an index >= 0 gives the element at that position if there is
\* one and default if not, and pulls index + 1 elements or all there are.
C24_LazyGetScansToIndex ==
    last.op = "get" =>
        /\ last.st = "ok"
        /\ last.n < 0 => last.v = Default /\ heap = last.pre
        /\ last.n >= 0 =>
              /\ last.v = IF Len(Offered) > last.n THEN Offered[last.n + 1] ELSE Default
              /\ PulledByCall = Min(last.n + 1, Len(Offered))
              /\ PulledByCall <= last.n + 1

\* Lazy.get found an element past the first and left elements unpulled.
C24_Witness ==
    /\ last.op = "get" /\ last.st = "ok"
    /\ last.n >= 1 /\ last.v # Default
    /\ Len(Offered) > last.n + 1

\* C25, as the code has it: QList.get and EagerQList.get give default for
\* every negative index and for every index >= len, and the element at the
\* index otherwise.
C25_EagerGetNegativeIsDefault ==
    last.op \in {"qget", "eget"} =>
        /\ last.st = "ok" /\ heap = last.pre
        /\ last.v = IF 0 <= last.n /\ last.n < Len(heap[1].seq)
                    THEN heap[1].seq[last.n + 1] ELSE Default

\* C25, as stated: for -len <= index < 0 they give the element at position
\* len + index.
C25_EagerGetCountsFromEnd ==
    (last.op \in {"qget", "eget"} /\ last.n < 0 /\ 0 - Len(heap[1].seq) <= last.n) =>
        last.v = heap[1].seq[Len(heap[1].seq) + last.n + 1]

\* EagerQList.get(-1, default) on a list that has elements gave default.
C25_Witness ==
    /\ last.op = "eget" /\ last.n = 0 - 1
    /\ heap[1].seq # <<>>
    /\ last.v = Default

\* ------------------------------------------------------------ map fusion
\* a = Lazy(S).map(f).map(g) and b = Lazy(S).map(lambda x: g(f(x))), each
\* over its own list or generator of the same S, pulled one element at a
\* time in any interleaving, or collected.
InitFusion ==
    /\ heap \in {<<NewList(s), NewList(s), NewLazy(1), NewLazy(2)>> : s \in Inputs}
                \cup {<<NewGen(s), NewGen(s), NewLazy(1), NewLazy(2)>> : s \in Inputs}
    /\ last = NoCall

NextFusion ==
    \/ \E f \in {"inc", "dbl"} : Len(heap) = 4 /\ map(3, f)
    \/ \E g \in {"inc", "dbl"} : Len(heap) = 6 /\ map(6, g)
    \/ Len(heap) = 8 /\ map(4, Compose(heap[7].fn, heap[5].fn))
    \/ \E l \in {8, 10} : Len(heap) >= 10 /\ next(l)
    \/ \E l \in {8, 10} : Len(heap) >= 10 /\ collect(l)

SpecFusion == InitFusion /\ [][NextFusion]_vars

\* How many elements frame f has taken from its source in heap h.
Taken(h, f) == IF f \notin DOMAIN h \/ h[f].it = 0 THEN 0 ELSE Pulled(h, h[f].it)

\* C26: the chain of two maps and the fused map, at the same position of
\* their sources, have the same elements left to yield; what either gives
\* when collected there is what the other would give; and a next() that
\* yields an element takes exactly one element from that pipeline's source.
C26_MapFusion ==
    Len(heap) >= 10 =>
        /\ Taken(heap, 5) = Taken(heap, 9) => Yields(heap, 8) = Yields(heap, 10)
        /\ (last.op = "collect" /\ Taken(last.pre, 5) = Taken(last.pre, 9)) =>
              /\ last.st = "ok"
              /\ last.out = Yields(last.pre, IF last.self = 8 THEN 10 ELSE 8)
        /\ (last.op = "next" /\ ~last.none) =>
              /\ last.st = "ok"
              /\ Taken(heap, 5) - Taken(last.pre, 5) = IF last.self = 8 THEN 1 ELSE 0
              /\ Taken(heap, 9) - Taken(last.pre, 9) = IF last.self = 10 THEN 1 ELSE 0

\* Both pipelines were pulled twice and f and g do not commute.
C26_Witness ==
    /\ Len(heap) >= 10 /\ last.op = "next" /\ ~last.none
    /\ Taken(heap, 5) = 2 /\ Taken(heap, 9) = 2
    /\ heap[5].fn # heap[7].fn
    /\ Yields(heap, 10) # <<>>

\* ------------------------------------------------------------ product
\* EagerQList(s).product(other) and product_with(other, operation), other a
\* list or a generator.
InitProduct ==
    /\ heap \in {<<NewList(s), NewList(k)>> : s \in Inputs, k \in Others}
                \cup {<<NewList(s), NewGen(k)>> : s \in Inputs, k \in Others}
    /\ last = NoCall

NextProduct ==
    \/ last.op = "init" /\ eproduct(1, 2)
    \/ last.op = "init" /\ eproduct_with(1, 2, "add")

SpecProduct == InitProduct /\ [][NextProduct]_vars

\* The pairs (t, k) of S and K, all those of the first t, then all those
\* of the second, and so on.
RowMajor(S, K) ==
    [p \in 1..(Len(S) * Len(K)) |->
        <<S[((p - 1) \div Len(K)) + 1], K[((p - 1) % Len(K)) + 1]>>]

\* C27: product(other) is the Cartesian product of self and other in
\* row-major order, len(self) * len(other) pairs, whatever iterable other
\* is; product_with is the operation applied to each of those pairs.
C27_ProductIsCartesian ==
    last.op \in {"eproduct", "eproduct_with"} =>
        LET pairs == RowMajor(heap[1].seq, heap[2].seq)
        IN  /\ last.st = "ok"
            /\ Len(last.out) = Len(heap[1].seq) * Len(heap[2].seq)
            /\ last.op = "eproduct" => last.out = pairs
            /\ last.op = "eproduct_with" =>
                  last.out = [p \in DOMAIN pairs |-> Apply2(last.fn, pairs[p][1], pairs[p][2])]

\* ------------------------------------------------------------ siblings
\* s = Lazy(gen); a = s.<operator>; b = s.<operator>: two pipelines made by
\* map, filter or take from the same Lazy over a generator, pulled one
\* element at a time in any interleaving, or collected.
InitSiblings == heap \in {<<NewGen(s), NewLazy(1)>> : s \in Inputs} /\ last = NoCall

NextSiblings ==
    \/ \E f \in {"inc", "dbl"} : Len(heap) < 6 /\ map(2, f)
    \/ Len(heap) < 6 /\ filter(2, "pos")
    \/ Len(heap) < 6 /\ take(2, 1)
    \/ \E l \in Lazies(heap) \ {2} : next(l)
    \/ \E l \in Lazies(heap) \ {2} : collect(l)

SpecSiblings == InitSiblings /\ [][NextSiblings]_vars

\* The other pipeline made from the shared Lazy, if there is one.
Sibling(l) == Lazies(last.pre) \ {2, l}

\* The source's elements that the last call pulled, in source order.
Delivered == SubSeq(heap[1].seq, Pulled(last.pre, 1) + 1, Pulled(heap, 1))

\* What the last call yielded.
Yielded ==
    CASE last.op = "collect" -> last.out
      [] last.none -> <<>>
      [] OTHER -> <<last.v>>

\* Yielded is what the pipeline's operator makes of Delivered.
YieldedFromDelivered ==
    LET f == heap[heap[last.self].up]
        apply(x) == Apply(f.fn, x)
        pass(x) == Apply(f.fn, x)
    IN  CASE f.kind = "map" -> Yielded = [j \in DOMAIN Delivered |-> apply(Delivered[j])]
          [] f.kind = "filter" -> Yielded = SelectSeq(Delivered, pass)
          [] f.kind = "take" ->
                /\ Len(Yielded) <= Len(Delivered)
                /\ Yielded = SubSeq(Delivered, 1, Len(Yielded))

\* The part of the claim about each pull: the elements a call pulls from
\* the shared source are the next ones in source order, the pipeline that
\* pulled yields what its operator makes of exactly those, and the other
\* pipeline gets none of them (nothing of it changes).
EachPullIsOwn ==
    Pulling =>
        /\ Pulled(heap, 1) >= Pulled(last.pre, 1)
        /\ YieldedFromDelivered
        /\ \A b \in Sibling(last.self) : heap[heap[b].up] = last.pre[heap[b].up]

\* A pipeline whose operator pulls its source until the source ends.
Exhaustive(l) == heap[heap[l].up].kind \in {"map", "filter"}

InitBounded == heap \in Sources /\ last = NoCall

NextBounded ==
    \/ \E pred \in {"false", "is2", "pos"} : Len(heap) = 2 /\ filter(2, pred)
    \/ \E n \in 0..MaxN : Len(heap) = 4 /\ take(4, n)
    \/ Len(heap) >= 6 /\ next(6)
    \/ Len(heap) >= 6 /\ collect(6)

SpecBounded == InitBounded /\ [][NextBounded]_vars

\* Whether the filter over the source can produce n elements in finitely
\* many steps: a finite source always answers; of naturals(), "false" lets
\* none through, "is2" one, "pos" any number.
Produces(pred, n) ==
    CASE heap[1].kind # "naturals" -> TRUE
      [] pred = "false" -> n <= 0
      [] pred = "is2" -> n <= 1
      [] OTHER -> TRUE

\* C29: draining take(n) over an upstream that can produce n elements
\* returns, even when the upstream would never produce another nor end.
C29_TakeTerminates ==
    (/\ Len(heap) >= 6
     /\ last.op \in {"next", "collect"}
     /\ Produces(heap[3].fn, heap[5].n)) => last.st = "ok"

\* ------------------------------------------------- the three variants
\* One finite sequence S behind the three variants: a one-shot generator of
\* S with the Lazy that wraps it (objects 1 and 2) and the list of S
\* (object 3), which is the receiver of both the QList and the EagerQList
\* methods: the two classes hold the same elements and differ only in the
\* methods called. Object 4 is the `other` of zip, chain and merge. The
\* nested sequences, for flatten and full_flatten, come without an other.
InitEquiv ==
    /\ heap \in {<<NewGen(s), NewLazy(1), NewList(s), NewList(k)>> : s \in Inputs, k \in Others}
                \cup {<<NewGen(s), NewLazy(1), NewList(s)>> : s \in NestedInputs}
    /\ last = NoCall

Untouched == last.op = "init"
OnInts == Untouched /\ Len(heap) = 4
OnNested == Untouched /\ Len(heap) = 3

\* One call of a shared operator on the untouched sources, through the Lazy
\* or through the EagerQList, and the collect() of the Lazy it returned.
NextEquiv ==
    \/ \E p \in {"even", "pos"} : OnInts /\ (filter(2, p) \/ efilter(3, p))
    \/ \E f \in {"inc", "dbl"} : OnInts /\ (map(2, f) \/ emap(3, f))
    \/ \E f \in {"dup", "one", "nil"} : OnInts /\ (flatmap(2, f) \/ eflatmap(3, f))
    \/ OnInts /\ (zip(2, 4) \/ ezip(3, 4))
    \/ \E s \in Elems : OnInts /\ (scan(2, "add", s) \/ escan(3, "add", s))
    \/ \E s \in Elems : OnInts /\ (enumerate(2, s) \/ eenumerate(3, s))
    \/ OnInts /\ (chain(2, 4) \/ echain(3, 4))
    \/ \E m \in Mergers : OnInts /\ (merge(2, 4, m) \/ emerge(3, 4, m))
    \/ \E n \in 1..MaxN : OnInts /\ (batch(2, n) \/ ebatch(3, n))
    \/ \E k \in {"id", "even", "true"} : OnInts /\ (batch_by(2, k) \/ ebatch_by(3, k))
    \/ \E n \in 1..MaxN : OnInts /\ (window(2, n) \/ ewindow(3, n))
    \/ \E p \in {"even", "pos"} : OnInts /\ (take_while(2, p) \/ etake_while(3, p))
    \/ OnNested /\ (flatten(2) \/ eflatten(3))
    \/ \E b \in BOOLEAN, p \in PreserveTypes :
          OnNested /\ (full_flatten(2, b, p) \/ efull_flatten(3, b, p))
    \/ \E s \in Elems : OnInts /\ (fold(2, "add", s) \/ efold(3, "add", s))
    \/ \E m \in Mappers : OnInts /\ (all(2, m) \/ eall(3, m))
    \/ \E m \in Mappers : OnInts /\ (any(2, m) \/ eany(3, m))
    \/ \E k \in Keys : OnInts /\ (min(2, k) \/ emin(3, k))
    \/ \E k \in Keys : OnInts /\ (max(2, k) \/ emax(3, k))
    \/ OnInts /\ (sum(2) \/ esum(3))
    \/ \E l \in DOMAIN heap : last.lz = l /\ IsLazy(l) /\ collect(l)

SpecEquiv == InitEquiv /\ [][NextEquiv]_vars

\* The Lazy on top of heap h, fully drained.
Drained(h) == ForAll(h, Top(h))

\* The EagerQList operators that return a sequence, and those that return
\* one value.
EagerChainable ==
    {"efilter", "emap", "eflatmap", "ezip", "escan", "eenumerate", "echain", "emerge",
     "ebatch", "ebatch_by", "ewindow", "etake_while", "eflatten", "efull_flatten"}
EagerTerminal == {"efold", "eall", "eany", "emin", "emax", "esum"}

\* After an EagerQList operator: the same operator, with the same
\* arguments, called on the receiver `self` of the state before the call
\* through the Lazy methods (lazy TRUE) or the QList methods, and the Lazy
\* it returns drained.
Counterpart(lazy, self) ==
    LET P == last.pre
        F == heap[Len(P) + 1]
    IN  CASE last.op = "efilter" ->
                Drained(IF lazy THEN Lazy_filter(P, self, last.fn)
                        ELSE QList_filter(P, self, last.fn))
          [] last.op = "emap" ->
                Drained(IF lazy THEN Lazy_map(P, self, last.fn) ELSE QList_map(P, self, last.fn))
          [] last.op = "eflatmap" ->
                Drained(IF lazy THEN Lazy_flatmap(P, self, last.fn)
                        ELSE QList_flatmap(P, self, last.fn))
          [] last.op = "ezip" ->
                Drained(IF lazy THEN Lazy_zip(P, self, last.n) ELSE QList_zip(P, self, last.n))
          [] last.op = "escan" ->
                Drained(IF lazy THEN Lazy_scan(P, self, last.fn, last.n)
                        ELSE QList_scan(P, self, last.fn, last.n))
          [] last.op = "eenumerate" ->
                Drained(IF lazy THEN Lazy_enumerate(P, self, last.n)
                        ELSE QList_enumerate(P, self, last.n))
          [] last.op = "echain" ->
                Drained(IF lazy THEN Lazy_chain(P, self, last.n)
                        ELSE QList_chain(P, self, last.n))
          [] last.op = "emerge" ->
                Drained(IF lazy THEN Lazy_merge(P, self, last.n, last.fn).h
                        ELSE QList_merge(P, self, last.n, last.fn).h)
          [] last.op = "ebatch" ->
                Drained(IF lazy THEN Lazy_batch(P, self, last.n)
                        ELSE QList_batch(P, self, last.n))
          [] last.op = "ebatch_by" ->
                Drained(IF lazy THEN Lazy_batch_by(P, self, last.fn)
                        ELSE QList_batch_by(P, self, last.fn))
          [] last.op = "ewindow" ->
                Drained(IF lazy THEN Lazy_window(P, self, last.n)
                        ELSE QList_window(P, self, last.n))
          [] last.op = "etake_while" ->
                Drained(IF lazy THEN Lazy_take_while(P, self, last.fn)
                        ELSE QList_take_while(P, self, last.fn))
          [] last.op = "eflatten" ->
                Drained(IF lazy THEN Lazy_flatten(P, self) ELSE QList_flatten(P, self))
          [] last.op = "efull_flatten" ->
                Drained(IF lazy THEN Lazy_full_flatten(P, self, F.l, F.fn)
                        ELSE QList_full_flatten(P, self, F.l, F.fn))

\* The same for the operators that return one value.
CounterpartValue(lazy, self) ==
    LET P == last.pre
        plain(r) == [st |-> r.st, v |-> r.v, none |-> FALSE]
        optional(r) == [st |-> r.st, v |-> r.v, none |-> r.none]
    IN  CASE last.op = "efold" ->
                plain(IF lazy THEN Lazy_fold(P, self, last.fn, last.n)
                      ELSE QList_fold(P, self, last.fn, last.n))
          [] last.op = "eall" ->
                plain(IF lazy THEN Lazy_all(P, self, last.fn) ELSE QList_all(P, self, last.fn))
          [] last.op = "eany" ->
                plain(IF lazy THEN Lazy_any(P, self, last.fn) ELSE QList_any(P, self, last.fn))
          [] last.op = "emin" ->
                optional(IF lazy THEN Lazy_min(P, self, last.fn) ELSE QList_min(P, self, last.fn))
          [] last.op = "emax" ->
                optional(IF lazy THEN Lazy_max(P, self, last.fn) ELSE QList_max(P, self, last.fn))
          [] last.op = "esum" ->
                optional(IF lazy THEN Lazy_sum(P, self) ELSE QList_sum(P, self))

\* The drained result d holds what the last call returned, element for
\* element; windows, which are lists of their own, by their elements.
SameElements(d) ==
    /\ Outcome(d) = last.st
    /\ Len(d.out) = Len(last.out)
    /\ IF last.op = "ewindow"
       THEN \A i \in 1..Len(d.out) : Deref(d.h, d.out[i], 1) = Deref(heap, last.out[i], 1)
       ELSE d.out = last.out

SameValue(a) ==
    /\ Outcome(a) = last.st
    /\ a.none = last.none
    /\ a.v = last.v

\* C30: on one finite sequence S and with the same arguments, what an
\* EagerQList operator returns, the drained result of the Lazy operator
\* over a one-shot iterator of S and the drained result of the QList
\* operator are equal element for element (windows by content), and the
\* operators that return one value return the same value.
C30_VariantsAgree ==
    /\ last.op \in EagerChainable =>
          SameElements(Counterpart(TRUE, 2)) /\ SameElements(Counterpart(FALSE, 3))
    /\ last.op \in EagerTerminal =>
          SameValue(CounterpartValue(TRUE, 2)) /\ SameValue(CounterpartValue(FALSE, 3))

\* EagerQList.batch_by has returned two groups or more, and the groups the
\* Lazy and the QList yield for the same sequence are those.
C30_Witness ==
    /\ last.op = "ebatch_by" /\ last.st = "ok" /\ Len(last.out) >= 2
    /\ Counterpart(TRUE, 2).out = last.out
    /\ Counterpart(FALSE, 3).out = last.out

====
